---- MODULE Spec2Model ----
(***************************************************************************)
(* Transaction recording bot (aiogram FSM + SQLAlchemy repository).        *)
(*                                                                         *)
(* State: the per-user FSM storage of aiogram's MemoryStorage (state tag   *)
(* and data dict), the `transactions` table, and the outcome of the last   *)
(* handler that ran (what the user was answered, or the exception that     *)
(* ended the handler).  One action per handler of src/main.py.             *)
(*                                                                         *)
(* Callback handlers are registered with filters on callback data only, so *)
(* they run in every FSM state; message handlers are registered with a     *)
(* state filter.  Callback data is a ":"-separated string; it is modelled  *)
(* as the tuple of its parts.  Texts are tuples of one-character strings.  *)
(***************************************************************************)
EXTENDS Integers, Sequences, FiniteSets, TLC

VARIABLES fsm_state, fsm_data, transactions, response, chat, tasks

vars == <<fsm_state, fsm_data, transactions, response, chat, tasks>>

(***************************************************************************)
(* Bounds of the model.                                                    *)
(***************************************************************************)
\* rows the transactions table may hold
MaxTransactions == 1

\* chat users (Telegram user ids)
Users == {1, 2}

(***************************************************************************)
(* storage/models.py                                                       *)
(***************************************************************************)
TransactionKind == {"expense", "income"}

\* A category directory as data/categories.json may define it: parent_id 0
\* is a root.  36/40 are the ids used by test_bot.py, 101..103 the ids the
\* quick income keyboard hardcodes; 104 and 105 are not defined here.
Category ==
    { [id |-> 36,  kind |-> "expense", parent_id |-> 0],
      [id |-> 40,  kind |-> "expense", parent_id |-> 36],
      [id |-> 50,  kind |-> "expense", parent_id |-> 0],
      [id |-> 101, kind |-> "income",  parent_id |-> 0],
      [id |-> 102, kind |-> "income",  parent_id |-> 0],
      [id |-> 103, kind |-> "income",  parent_id |-> 0],
      [id |-> 106, kind |-> "income",  parent_id |-> 103] }

\* None for an integer column or dict value
None == 0
\* the FSM state None (no active state)
NoState == "None"
\* a dict key that holds no kind
NoKind == "None"

(***************************************************************************)
(* storage/categories.py                                                   *)
(***************************************************************************)
get_categories_by_kind(kind) ==
    { c \in Category : c.kind = kind /\ c.parent_id = None }

\* get_subcategories filtering on the wrong column
get_subcategories_by_id(parent_id) ==
    { c \in Category : c.id = parent_id /\ c.parent_id # None }

get_subcategories(parent_id) ==
    { c \in Category : c.parent_id = parent_id }

\* the singleton set of the category, or {} for None
get_category_by_id(category_id) ==
    { c \in Category : c.id = category_id }

(***************************************************************************)
(* Decimal values: coef * 10^(-scale).  Amount columns are Numeric(12, 2). *)
(***************************************************************************)
RECURSIVE Pow10(_)
Pow10(n) == IF n = 0 THEN 1 ELSE 10 * Pow10(n - 1)

Decimal(coef, scale) == [coef |-> coef, scale |-> scale]

\* value of a Numeric(12, 2) column as the ORM reads it back, in hundredths:
\* the Decimal rounded to 2 fractional digits (nearest)
Numeric_12_2(d) ==
    IF d.scale <= 2
    THEN d.coef * Pow10(2 - d.scale)
    ELSE (d.coef + (Pow10(d.scale - 2) \div 2)) \div Pow10(d.scale - 2)

\* hundredths of a Decimal, when it has an exact value in hundredths
DecimalEq(d, cents) == d.coef * 100 = cents * Pow10(d.scale)

(***************************************************************************)
(* services/transaction_service.py : parse_amount                          *)
(***************************************************************************)
Digits == <<"0", "1", "2", "3", "4", "5", "6", "7", "8", "9">>

IsDigit(c) == \E i \in 1..10 : Digits[i] = c

DigitVal(c) == (CHOOSE i \in 1..10 : Digits[i] = c) - 1

IsSpace(c) == c \in {" ", "\t", "\n"}

\* str.strip()
RECURSIVE lstrip(_)
lstrip(s) == IF s # <<>> /\ IsSpace(Head(s)) THEN lstrip(Tail(s)) ELSE s

RECURSIVE rstrip(_)
rstrip(s) ==
    IF s # <<>> /\ IsSpace(s[Len(s)]) THEN rstrip(SubSeq(s, 1, Len(s) - 1)) ELSE s

strip(s) == rstrip(lstrip(s))

\* str.replace(old, '') for a one-character old
RECURSIVE remove(_, _)
remove(s, old) ==
    IF s = <<>> THEN <<>>
    ELSE IF Head(s) = old THEN remove(Tail(s), old)
         ELSE <<Head(s)>> \o remove(Tail(s), old)

\* str.replace(old, new) for one-character old and new
replace(s, old, new) ==
    [i \in 1..Len(s) |-> IF s[i] = old THEN new ELSE s[i]]

\* length of the longest prefix of digits
RECURSIVE DigitRun(_)
DigitRun(s) ==
    IF s # <<>> /\ IsDigit(Head(s)) THEN 1 + DigitRun(Tail(s)) ELSE 0

\* the pattern with \d* in place of \d+ : r'^\d*\.?\d*$'
AmountPattern_star(s) ==
    LET n == DigitRun(s)
        rest == SubSeq(s, n + 1, Len(s))
        frac == IF rest # <<>> /\ Head(rest) = "." THEN Tail(rest) ELSE rest
    IN  DigitRun(frac) = Len(frac)

\* re.match(r'^\d+\.?\d*$', s)
AmountPattern(s) ==
    LET n == DigitRun(s)
        rest == SubSeq(s, n + 1, Len(s))
        frac == IF rest # <<>> /\ Head(rest) = "." THEN Tail(rest) ELSE rest
    IN  n >= 1 /\ DigitRun(frac) = Len(frac)

\* integer value of a tuple of digits
RECURSIVE DigitsValue(_)
DigitsValue(s) ==
    IF s = <<>> THEN 0
    ELSE 10 * DigitsValue(SubSeq(s, 1, Len(s) - 1)) + DigitVal(s[Len(s)])

\* Decimal(cleaned) for a text that matched the pattern
DecimalOf(s) ==
    LET digits == remove(s, ".")
        n == DigitRun(s)
    IN  Decimal(DigitsValue(digits), Len(digits) - n)

\* parse_amount dropping minus signs while cleaning the text
parse_amount_unsigned(amount_str) ==
    LET cleaned == replace(remove(remove(strip(amount_str), " "), "-"), ",", ".")
    IN  IF ~AmountPattern(cleaned) THEN <<>> ELSE <<DecimalOf(cleaned)>>

\* <<>> for None, <<d>> for the Decimal d
parse_amount(amount_str) ==
    LET cleaned == replace(remove(strip(amount_str), " "), ",", ".")
    IN  IF ~AmountPattern(cleaned) THEN <<>> ELSE <<DecimalOf(cleaned)>>

(***************************************************************************)
(* The text of a Decimal as the messages show it: f"{amount}" is           *)
(* Decimal.__str__, which switches to scientific notation when the first   *)
(* significant digit lies more than six places behind the point.           *)
(***************************************************************************)
\* decimal digits of a natural number ("0" for 0)
RECURSIVE IntDigits(_)
IntDigits(n) ==
    IF n < 10 THEN <<Digits[n + 1]>>
    ELSE IntDigits(n \div 10) \o <<Digits[(n % 10) + 1]>>

\* '0' * n
Zeros(n) == [i \in 1..n |-> "0"]

\* str(d) for a Decimal d >= 0 whose exponent is -d.scale <= 0
str_Decimal(d) ==
    LET int == IntDigits(d.coef)
        leftdigits == Len(int) - d.scale
    IN  IF leftdigits > -6
        THEN IF leftdigits <= 0
             THEN <<"0", ".">> \o Zeros(-leftdigits) \o int
             ELSE IF leftdigits >= Len(int)
             THEN int
             ELSE SubSeq(int, 1, leftdigits) \o <<".">>
                  \o SubSeq(int, leftdigits + 1, Len(int))
        ELSE SubSeq(int, 1, 1)
             \o (IF Len(int) > 1 THEN <<".">> \o SubSeq(int, 2, Len(int)) ELSE <<>>)
             \o <<"E", "-">> \o IntDigits(1 - leftdigits)

\* Decimal == Decimal, and None == None
DecimalResultEq(a, b) ==
    IF a = <<>> \/ b = <<>> THEN a = <<>> /\ b = <<>>
    ELSE a[1].coef * Pow10(b[1].scale) = b[1].coef * Pow10(a[1].scale)

(***************************************************************************)
(* keyboards/main.py, keyboards/categories.py: a keyboard is the set of    *)
(* the callback data of its buttons.                                       *)
(***************************************************************************)
get_main_keyboard ==
    { <<"expense">>, <<"income">>, <<"view_expenses">>, <<"view_incomes">>,
      <<"recent_transactions">>, <<"export_report">> }

get_quick_actions_keyboard == { <<"add_another">>, <<"main_menu">> }

get_cancel_keyboard == { <<"cancel">> }

get_categories_keyboard(categories, action) ==
    { <<action \o "_category", c.id>> : c \in categories } \cup { <<"cancel">> }

get_quick_income_keyboard ==
    { <<"quick_income", 102>>, <<"quick_income", 103>>,
      <<"quick_income", 104>>, <<"quick_income", 105>>,
      <<"income_category", 101>>, <<"cancel">> }

get_confirm_keyboard(action, data) ==
    { <<action \o "_confirm", data>>, <<"cancel">> }

\* number of required positional parameters of get_confirm_keyboard
get_confirm_keyboard_params == 2
\* number of arguments process_amount passes to get_confirm_keyboard
process_amount_confirm_args == 1

(***************************************************************************)
(* FSM storage (MemoryStorage): state tag and data dict per user.          *)
(* category_name / subcategory_name are written and cleared together with  *)
(* category_id / subcategory_id and are not modelled separately; keys that *)
(* the code reads only with dict.get() hold None when absent.              *)
(***************************************************************************)
TransactionStates ==
    { "waiting_for_category", "waiting_for_subcategory", "waiting_for_comment",
      "waiting_for_amount", "waiting_for_confirmation" }

NoComment == <<>>
NoAmount == <<>>
NoMessage == "None"

\* the data dict after state.clear()
EmptyData ==
    [ kind |-> NoKind, category_id |-> None, subcategory_id |-> None,
      comment |-> NoComment, amount |-> NoAmount,
      last_bot_message_id |-> NoMessage ]

(***************************************************************************)
(* What the last handler did towards the user.                             *)
(*   via: "edit_text" (the callback's message was edited), "send_message"  *)
(*   (a new message was sent), "answer" (callback.answer only), "none".    *)
(*   error: the exception that left the handler, or "none".                *)
(*   input: the message text process_amount handled, <<>> otherwise.       *)
(*   items, nav: the rows a listing shows and its navigation row.          *)
(*   title: the scope and the offset a paged listing names in its title.   *)
(*   at: the reading of datetime.utcnow() the handler compared stored      *)
(*   times with, 0 when it made no such comparison.                        *)
(*   report: <<what build_report returned or had made when it raised>>;    *)
(*   for handle_export, title holds the parts of the callback data.        *)
(***************************************************************************)
NoKeyboard == {}

Reply(u, handler, via, text, keyboard) ==
    [ user |-> u, handler |-> handler, via |-> via, text |-> text,
      keyboard |-> keyboard, error |-> "none", amount |-> NoAmount, tx_id |-> None,
      input |-> <<>>, items |-> <<>>, nav |-> <<>>,
      title |-> <<>>, at |-> 0, report |-> <<>> ]

Raised(u, handler, exception) ==
    [ user |-> u, handler |-> handler, via |-> "none", text |-> "none",
      keyboard |-> NoKeyboard, error |-> exception, amount |-> NoAmount,
      tx_id |-> None, input |-> <<>>, items |-> <<>>, nav |-> <<>>,
      title |-> <<>>, at |-> 0, report |-> <<>> ]

(***************************************************************************)
(* Inputs the transport delivers.  Callback data comes from the buttons    *)
(* the bot renders (a keyboard stays usable in the chat after the flow has *)
(* moved on) and from the filter of process_confirmation.                  *)
(***************************************************************************)
\* ids carried by the "expense_category:<id>" and "income_category:<id>" buttons
CategoryButtonIds ==
    { k[2] : k \in { b \in get_categories_keyboard(get_categories_by_kind("expense"), "expense")
                            \cup get_quick_income_keyboard :
                         Len(b) = 2 /\ b[1] \in {"expense_category", "income_category"} } }

\* ids carried by the "quick_income:<id>" buttons of categories the directory defines
QuickIncomeIds ==
    { k[2] : k \in { b \in get_quick_income_keyboard :
                         b[1] = "quick_income" /\ get_category_by_id(b[2]) # {} } }

\* ids carried by the "subcategory_category:<id>" buttons
SubcategoryIds ==
    UNION { { c.id : c \in get_subcategories(id) } : id \in CategoryButtonIds }

\* message texts sent in the comment step: the skip sentinel, a comment
SkipText == <<"-">>
CommentTexts == { SkipText, <<"o", "k">> }

\* message texts sent in the amount step
Text100 == <<"1", "0", "0">>
InvalidAmountTexts == { <<"0">>, <<"a", "b", "c">>, <<"-", "5">> }
AmountTexts == { Text100 } \cup InvalidAmountTexts

\* amount texts with fractional digits, for the specification of stored values
PreciseAmountTexts ==
    { Text100, <<"2", ",", "5", "0">>, <<"0", ".", "0", "0", "1">> } \cup InvalidAmountTexts

\* amount texts for the parsing rule: every text of at most MaxLen characters
\* over ParseAlphabet, and the texts the documentation names
MaxLen == 3
ParseAlphabet == { "0", "5", " ", ",", ".", "-" }
NamedTexts ==
    { <<"1", "0", "0", "0">>, <<"1", " ", "5", "0", "0">>, <<"2", ",", "5", "0">>,
      <<"a", "b", "c">>, <<"-", "5">>, <<"0", ".", "0", "0", "1">>,
      <<"0", ".", "0", "0", "0", "0", "0", "0", "1">>,
      <<"\n", "5", "\t">>, <<"5", "\n", "5">>, <<"1", ",", "0", "0", "0", ".", "5">> }
ParseTexts ==
    UNION { [1..n -> ParseAlphabet] : n \in 1..MaxLen } \cup NamedTexts

\* amount texts with a sign or of value zero, and a valid one
SignedAmountTexts ==
    { <<"-", "5">>, <<"-", "0">>, <<"0">>, <<"0", ".", "0", "0">>, Text100 }

(***************************************************************************)
(* utils/message_utils.py                                                  *)
(***************************************************************************)
\* data dict after _send_step_message: the previous step message is deleted
\* and the id of the message just sent is stored
_send_step_message(data) == [data EXCEPT !.last_bot_message_id = "step_message"]

\* data dict after _edit_callback_message: the id of the edited message
_edit_callback_message(data) ==
    [data EXCEPT !.last_bot_message_id = "callback_message"]

(***************************************************************************)
(* main.py : dp.start_polling.  `tasks` holds the handler instances that   *)
(* are suspended at an await, `chat` the messages the bot has sent.  The   *)
(* specifications of the single flows run every handler to its end in one  *)
(* step and observe the bot through `response` alone: no instance is ever  *)
(* in flight in them and they keep no chat.                                *)
(***************************************************************************)
Sequential == UNCHANGED <<chat, tasks>>

(***************************************************************************)
(* Initial state: no FSM state, empty data, empty table, nothing answered. *)
(***************************************************************************)
NoResponse == Reply(0, "none", "none", "none", NoKeyboard)

Init ==
    /\ fsm_state = [u \in Users |-> NoState]
    /\ fsm_data = [u \in Users |-> EmptyData]
    /\ transactions = {}
    /\ response = NoResponse
    /\ chat = <<>>
    /\ tasks = <<>>

(***************************************************************************)
(* main.py : callback handlers of the recording flow                       *)
(***************************************************************************)
\* process_expense on a data dict shared by all users
process_expense_shared(u) ==
    /\ fsm_state' = [fsm_state EXCEPT ![u] = "waiting_for_category"]
    /\ fsm_data' = [v \in Users |-> [fsm_data[v] EXCEPT !.kind = "expense"]]
    /\ response' = Reply(u, "process_expense", "edit_text", "choose_category",
                         get_categories_keyboard(get_categories_by_kind("expense"), "expense"))
    /\ UNCHANGED transactions

\* callback "expense"
process_expense(u) ==
    /\ fsm_state' = [fsm_state EXCEPT ![u] = "waiting_for_category"]
    /\ fsm_data' = [fsm_data EXCEPT ![u].kind = "expense"]
    /\ response' = Reply(u, "process_expense", "edit_text", "choose_category",
                         get_categories_keyboard(get_categories_by_kind("expense"), "expense"))
    /\ UNCHANGED transactions

\* callback "income"
process_income(u) ==
    /\ fsm_state' = [fsm_state EXCEPT ![u] = "waiting_for_category"]
    /\ fsm_data' = [fsm_data EXCEPT ![u].kind = "income"]
    /\ response' = Reply(u, "process_income", "edit_text", "choose_income",
                         get_quick_income_keyboard)
    /\ UNCHANGED transactions

\* callback "expense_category:<id>" or "income_category:<id>"
process_category_selection(u, category_id) ==
    LET category == get_category_by_id(category_id)
        subcategories == get_subcategories(category_id)
    IN  /\ UNCHANGED transactions
        /\ IF category = {}
           THEN /\ response' = Reply(u, "process_category_selection", "answer",
                                     "category_not_found", NoKeyboard)
                /\ UNCHANGED <<fsm_state, fsm_data>>
           ELSE IF subcategories # {}
           THEN /\ fsm_state' = [fsm_state EXCEPT ![u] = "waiting_for_subcategory"]
                /\ fsm_data' = [fsm_data EXCEPT ![u].category_id = category_id]
                /\ response' = Reply(u, "process_category_selection", "edit_text",
                                     "choose_subcategory",
                                     get_categories_keyboard(subcategories, "subcategory"))
           ELSE /\ fsm_state' = [fsm_state EXCEPT ![u] = "waiting_for_comment"]
                /\ fsm_data' = [fsm_data EXCEPT ![u] =
                       _edit_callback_message(
                           [@ EXCEPT !.category_id = category_id,
                                     !.subcategory_id = None])]
                /\ response' = Reply(u, "process_category_selection", "edit_text",
                                     "enter_comment", get_cancel_keyboard)

\* process_quick_income branching on subcategories like process_category_selection
process_quick_income_branching(u, category_id) ==
    process_category_selection(u, category_id)

\* process_quick_income without the lookup of the category
process_quick_income_unchecked(u, category_id) ==
    /\ fsm_state' = [fsm_state EXCEPT ![u] = "waiting_for_comment"]
    /\ fsm_data' = [fsm_data EXCEPT ![u] =
           _edit_callback_message([@ EXCEPT !.category_id = category_id,
                                            !.subcategory_id = None])]
    /\ response' = Reply(u, "process_quick_income", "edit_text", "enter_comment",
                         get_cancel_keyboard)
    /\ UNCHANGED transactions

\* callback "quick_income:<id>"
process_quick_income(u, category_id) ==
    LET category == get_category_by_id(category_id)
    IN  /\ UNCHANGED transactions
        /\ IF category = {}
           THEN /\ response' = Reply(u, "process_quick_income", "answer",
                                     "category_not_found", NoKeyboard)
                /\ UNCHANGED <<fsm_state, fsm_data>>
           ELSE /\ fsm_state' = [fsm_state EXCEPT ![u] = "waiting_for_comment"]
                /\ fsm_data' = [fsm_data EXCEPT ![u] =
                       _edit_callback_message(
                           [@ EXCEPT !.category_id = category_id,
                                     !.subcategory_id = None])]
                /\ response' = Reply(u, "process_quick_income", "edit_text",
                                     "enter_comment", get_cancel_keyboard)

\* callback "subcategory_category:<id>"; `data` is read before the update, and
\* data['category_name'] is evaluated after the state and the data are written
process_subcategory_selection(u, subcategory_id) ==
    LET data == fsm_data[u]
        subcategory == get_category_by_id(subcategory_id)
    IN  /\ UNCHANGED transactions
        /\ IF subcategory = {}
           THEN /\ response' = Reply(u, "process_subcategory_selection", "answer",
                                     "subcategory_not_found", NoKeyboard)
                /\ UNCHANGED <<fsm_state, fsm_data>>
           ELSE /\ fsm_state' = [fsm_state EXCEPT ![u] = "waiting_for_comment"]
                /\ IF data.category_id = None
                   THEN /\ fsm_data' = [fsm_data EXCEPT ![u].subcategory_id = subcategory_id]
                        /\ response' = Raised(u, "process_subcategory_selection", "KeyError")
                   ELSE /\ fsm_data' = [fsm_data EXCEPT ![u] =
                               _edit_callback_message(
                                   [@ EXCEPT !.subcategory_id = subcategory_id])]
                        /\ response' = Reply(u, "process_subcategory_selection", "edit_text",
                                             "enter_comment", get_cancel_keyboard)

\* process_cancel resetting the state tag only (set_state(None), no clear())
process_cancel_state_only(u) ==
    /\ fsm_state' = [fsm_state EXCEPT ![u] = NoState]
    /\ response' = Reply(u, "process_cancel", "edit_text", "cancelled", get_main_keyboard)
    /\ UNCHANGED <<fsm_data, transactions>>

\* callback "cancel"
process_cancel(u) ==
    /\ fsm_state' = [fsm_state EXCEPT ![u] = NoState]
    /\ fsm_data' = [fsm_data EXCEPT ![u] = EmptyData]
    /\ response' = Reply(u, "process_cancel", "edit_text", "cancelled", get_main_keyboard)
    /\ UNCHANGED transactions

\* callback "main_menu"
process_main_menu(u) ==
    /\ fsm_state' = [fsm_state EXCEPT ![u] = NoState]
    /\ fsm_data' = [fsm_data EXCEPT ![u] = EmptyData]
    /\ response' = Reply(u, "process_main_menu", "edit_text", "main_menu", get_main_keyboard)
    /\ UNCHANGED transactions

\* callback "add_another"
process_add_another(u) ==
    /\ fsm_state' = [fsm_state EXCEPT ![u] = NoState]
    /\ fsm_data' = [fsm_data EXCEPT ![u] = EmptyData]
    /\ response' = Reply(u, "process_add_another", "edit_text", "choose_kind", get_main_keyboard)
    /\ UNCHANGED transactions

(***************************************************************************)
(* main.py : message handlers (registered with a state filter)             *)
(***************************************************************************)
\* a text message while in waiting_for_comment
process_comment(u, text) ==
    LET stripped == strip(text)
        comment == IF stripped = <<"-">> THEN NoComment ELSE stripped
    IN  /\ fsm_state[u] = "waiting_for_comment"
        /\ fsm_state' = [fsm_state EXCEPT ![u] = "waiting_for_amount"]
        /\ fsm_data' = [fsm_data EXCEPT ![u] =
               _send_step_message([@ EXCEPT !.comment = comment])]
        /\ response' = Reply(u, "process_comment", "send_message", "enter_amount",
                             get_cancel_keyboard)
        /\ UNCHANGED transactions

\* amount < 0 in place of amount <= 0
NotPositive_strict(amount) == amount.coef < 0

\* amount <= 0 for a parsed Decimal
NotPositive(amount) == amount.coef <= 0

\* a text message while in waiting_for_amount
process_amount(u, text) ==
    LET amount == parse_amount(text)
        data == fsm_data[u]
    IN  /\ fsm_state[u] = "waiting_for_amount"
        /\ UNCHANGED transactions
        /\ IF amount = <<>>
           THEN /\ fsm_data' = [fsm_data EXCEPT ![u] = _send_step_message(@)]
                /\ response' = [Reply(u, "process_amount", "send_message",
                                      "bad_amount_format", get_cancel_keyboard)
                                    EXCEPT !.input = text]
                /\ UNCHANGED fsm_state
           ELSE IF NotPositive(amount[1])
           THEN /\ fsm_data' = [fsm_data EXCEPT ![u] = _send_step_message(@)]
                /\ response' = [Reply(u, "process_amount", "send_message",
                                      "amount_not_positive", get_cancel_keyboard)
                                    EXCEPT !.input = text]
                /\ UNCHANGED fsm_state
           ELSE IF data.kind = NoKind \/ data.category_id = None
           THEN \* data['kind'] / data['category_name'] after update_data
                /\ fsm_data' = [fsm_data EXCEPT ![u].amount = amount]
                /\ response' = [Raised(u, "process_amount", "KeyError")
                                    EXCEPT !.input = text]
                /\ UNCHANGED fsm_state
           ELSE IF process_amount_confirm_args # get_confirm_keyboard_params
           THEN \* the call of get_confirm_keyboard raises after set_state
                /\ fsm_data' = [fsm_data EXCEPT ![u].amount = amount]
                /\ fsm_state' = [fsm_state EXCEPT ![u] = "waiting_for_confirmation"]
                /\ response' = [Raised(u, "process_amount", "TypeError")
                                    EXCEPT !.input = text]
           ELSE /\ fsm_data' = [fsm_data EXCEPT ![u] =
                       _send_step_message([@ EXCEPT !.amount = amount])]
                /\ fsm_state' = [fsm_state EXCEPT ![u] = "waiting_for_confirmation"]
                /\ response' = [Reply(u, "process_amount", "send_message",
                                      "confirm_summary",
                                      get_confirm_keyboard("transaction", "data"))
                                    EXCEPT !.amount = amount, !.input = text]

(***************************************************************************)
(* services/transaction_service.py : create_transaction                    *)
(***************************************************************************)
\* a primary key counting the stored rows
NextId_count(rows) == Cardinality(rows) + 1

\* the autoincrement primary key of the next row
NextId(rows) ==
    IF rows = {} THEN 1
    ELSE 1 + (CHOOSE m \in { r.id : r \in rows } : \A r \in rows : r.id <= m)

\* datetime.utcnow() as a logical time: later than the time of every stored row
utcnow(rows) ==
    IF rows = {} THEN 1
    ELSE 1 + (CHOOSE m \in { r.effective_at : r \in rows } :
                 \A r \in rows : r.effective_at <= m)

\* the row as refreshed from the table after the commit
create_transaction(rows, user_id, kind, category_id, subcategory_id, amount, comment) ==
    [ id |-> NextId(rows), user_id |-> user_id, kind |-> kind,
      category_id |-> category_id, subcategory_id |-> subcategory_id,
      amount |-> Numeric_12_2(amount), comment |-> comment,
      created_at |-> utcnow(rows), effective_at |-> utcnow(rows) ]

(***************************************************************************)
(* services/transaction_service.py : delete_transaction_by_id              *)
(***************************************************************************)
\* delete_transaction_by_id without the comparison of the owner
delete_transaction_by_id_unscoped(rows, user_id, transaction_id, commit_ok) ==
    LET transaction == { t \in rows : t.id = transaction_id }
    IN  IF transaction = {} \/ ~commit_ok
        THEN [ok |-> FALSE, rows |-> rows]
        ELSE [ok |-> TRUE, rows |-> rows \ transaction]

\* the returned bool and the table afterwards; commit_ok: whether
\* session.commit() succeeds
delete_transaction_by_id(rows, user_id, transaction_id, commit_ok) ==
    LET transaction == { t \in rows : t.id = transaction_id }
    IN  IF transaction = {} THEN [ok |-> FALSE, rows |-> rows]
        ELSE IF \E t \in transaction : t.user_id # user_id
        THEN [ok |-> FALSE, rows |-> rows]
        ELSE IF ~commit_ok THEN [ok |-> FALSE, rows |-> rows]
        ELSE [ok |-> TRUE, rows |-> rows \ transaction]

(***************************************************************************)
(* handlers/recent.py : the browser of recent transactions.  Callback data *)
(* "recent:<scope>:<offset>", "tx:del:<id>:<scope>:<offset>" and           *)
(* "tx:delconf:<id>:<scope>:<offset>".  The handlers do not touch the FSM. *)
(***************************************************************************)
\* default of the parameter `limit` of _fetch_recent
fetch_limit == 10
\* the page step and the full-page length in the navigation row
page_step == 10

\* ORDER BY effective_at ASC
RECURSIVE order_by_effective_at_asc(_)
order_by_effective_at_asc(rows) ==
    IF rows = {} THEN <<>>
    ELSE LET first == CHOOSE t \in rows : \A r \in rows : t.effective_at <= r.effective_at
         IN  <<first>> \o order_by_effective_at_asc(rows \ {first})

\* ORDER BY effective_at DESC
RECURSIVE order_by_effective_at_desc(_)
order_by_effective_at_desc(rows) ==
    IF rows = {} THEN <<>>
    ELSE LET first == CHOOSE t \in rows : \A r \in rows : r.effective_at <= t.effective_at
         IN  <<first>> \o order_by_effective_at_desc(rows \ {first})

\* _fetch_recent without the filter on the user
_fetch_recent_unscoped(rows, user_id, kind, offset) ==
    LET query == { t \in rows : kind \in TransactionKind => t.kind = kind }
        ordered == order_by_effective_at_desc(query)
        last == IF offset + fetch_limit < Len(ordered)
                THEN offset + fetch_limit ELSE Len(ordered)
    IN  SubSeq(ordered, offset + 1, last)

\* the rows of one page, newest first
_fetch_recent(rows, user_id, kind, offset) ==
    LET query == { t \in rows : /\ t.user_id = user_id
                                /\ (kind \in TransactionKind => t.kind = kind) }
        ordered == order_by_effective_at_desc(query)
        last == IF offset + fetch_limit < Len(ordered)
                THEN offset + fetch_limit ELSE Len(ordered)
    IN  SubSeq(ordered, offset + 1, last)

\* kind = None if scope == "all" else scope
kind_of_scope(scope) == IF scope = "all" THEN NoKind ELSE scope

\* the navigation row of _with_delete_buttons
nav_row(scope, offset, items) ==
    (IF offset > 0
     THEN << <<"recent", scope, IF offset - page_step > 0 THEN offset - page_step ELSE 0>> >>
     ELSE <<>>)
    \o (IF Len(items) = page_step
        THEN << <<"recent", scope, offset + page_step>> >>
        ELSE <<>>)

_with_delete_buttons(scope, offset, items) ==
    { <<"recent", "expense", 0>>, <<"recent", "income", 0>>, <<"recent", "all", 0>> }
    \cup { <<"tx", "del", items[i].id, scope, offset>> : i \in 1..Len(items) }
    \cup { nav_row(scope, offset, items)[i] : i \in 1..Len(nav_row(scope, offset, items)) }
    \cup { <<"main_menu">> }

\* the listing message: text, rows shown, keyboard and navigation row
recent_page(u, handler, text, rows, scope, offset) ==
    LET items == _fetch_recent(rows, u, kind_of_scope(scope), offset)
    IN  [ Reply(u, handler, "edit_text", text, _with_delete_buttons(scope, offset, items))
            EXCEPT !.items = items, !.nav = nav_row(scope, offset, items),
                   !.title = <<scope, offset>> ]

(***************************************************************************)
(* main.py : process_confirmation, callback "transaction_confirm"          *)
(***************************************************************************)
\* commit_ok: whether session.commit() succeeds; cap: rows the table may hold
process_confirmation_upto(u, commit_ok, cap) ==
    LET data == fsm_data[u]
        failure == Reply(u, "process_confirmation", "edit_text", "save_failed",
                         get_main_keyboard)
    IN  IF data.category_id = None
        THEN \* int(None)
             /\ response' = Raised(u, "process_confirmation", "TypeError")
             /\ UNCHANGED <<fsm_state, fsm_data, transactions>>
        ELSE IF data.amount = NoAmount
        THEN /\ response' = Reply(u, "process_confirmation", "answer",
                                  "amount_error", NoKeyboard)
             /\ UNCHANGED <<fsm_state, fsm_data, transactions>>
        ELSE IF data.kind \notin TransactionKind
        THEN \* TransactionKind(None) raises ValueError inside the try block
             /\ response' = failure
             /\ UNCHANGED <<fsm_state, fsm_data, transactions>>
        ELSE IF ~commit_ok
        THEN \* rollback, re-raise, caught by the handler
             /\ response' = failure
             /\ UNCHANGED <<fsm_state, fsm_data, transactions>>
        ELSE LET transaction ==
                     create_transaction(transactions, u, data.kind, data.category_id,
                                        data.subcategory_id, data.amount[1],
                                        data.comment)
             IN  /\ Cardinality(transactions) < cap
                 /\ transactions' = transactions \cup {transaction}
                 /\ fsm_state' = [fsm_state EXCEPT ![u] = NoState]
                 /\ fsm_data' = [fsm_data EXCEPT ![u] = EmptyData]
                 /\ response' = [Reply(u, "process_confirmation", "edit_text", "saved",
                                       get_quick_actions_keyboard)
                                     EXCEPT !.amount = data.amount,
                                            !.tx_id = transaction.id]

process_confirmation(u, commit_ok) ==
    process_confirmation_upto(u, commit_ok, MaxTransactions)

(***************************************************************************)
(* main.py : cmd_undo, command "/undo" (registered without a state filter) *)
(* and services/transaction_service.py : delete_last_transaction.  Times   *)
(* are in minutes; now: what datetime.utcnow() returns in the call.        *)
(***************************************************************************)
\* default of the parameter `minutes` of delete_last_transaction
undo_minutes == 5

\* delete_last_transaction without the cutoff on created_at
delete_last_transaction_unwindowed(rows, user_id, now, commit_ok) ==
    LET query == { t \in rows : t.user_id = user_id }
    IN  IF query = {} THEN [deleted |-> {}, rows |-> rows, raised |-> FALSE]
        ELSE LET transaction ==
                     CHOOSE t \in query : \A r \in query : r.created_at <= t.created_at
             IN  IF commit_ok
                 THEN [deleted |-> {transaction}, rows |-> rows \ {transaction},
                       raised |-> FALSE]
                 ELSE [deleted |-> {}, rows |-> rows, raised |-> TRUE]

\* delete_last_transaction ordering by created_at ascending
delete_last_transaction_oldest(rows, user_id, now, commit_ok) ==
    LET cutoff_time == now - undo_minutes
        query == { t \in rows : t.user_id = user_id /\ t.created_at >= cutoff_time }
    IN  IF query = {} THEN [deleted |-> {}, rows |-> rows, raised |-> FALSE]
        ELSE LET transaction ==
                     CHOOSE t \in query : \A r \in query : t.created_at <= r.created_at
             IN  IF commit_ok
                 THEN [deleted |-> {transaction}, rows |-> rows \ {transaction},
                       raised |-> FALSE]
                 ELSE [deleted |-> {}, rows |-> rows, raised |-> TRUE]

\* the returned row (a set of at most one), the table afterwards, and whether
\* the commit raised (the method catches nothing)
delete_last_transaction(rows, user_id, now, commit_ok) ==
    LET cutoff_time == now - undo_minutes
        query == { t \in rows : t.user_id = user_id /\ t.created_at >= cutoff_time }
    IN  IF query = {} THEN [deleted |-> {}, rows |-> rows, raised |-> FALSE]
        ELSE LET transaction ==
                     CHOOSE t \in query : \A r \in query : r.created_at <= t.created_at
             IN  IF commit_ok
                 THEN [deleted |-> {transaction}, rows |-> rows \ {transaction},
                       raised |-> FALSE]
                 ELSE [deleted |-> {}, rows |-> rows, raised |-> TRUE]

\* cmd_undo ending the recording flow as process_cancel does
cmd_undo_clearing(u, now, commit_ok) ==
    /\ transactions' = delete_last_transaction(transactions, u, now, commit_ok).rows
    /\ fsm_state' = [fsm_state EXCEPT ![u] = NoState]
    /\ fsm_data' = [fsm_data EXCEPT ![u] = EmptyData]
    /\ response' = [Reply(u, "cmd_undo", "send_message", "undone", NoKeyboard)
                       EXCEPT !.at = now]

cmd_undo(u, now, commit_ok) ==
    LET result == delete_last_transaction(transactions, u, now, commit_ok)
    IN  /\ transactions' = result.rows
        /\ response' =
              IF result.raised
              THEN [Raised(u, "cmd_undo", "SQLAlchemyError") EXCEPT !.at = now]
              ELSE IF result.deleted # {}
              THEN [Reply(u, "cmd_undo", "send_message", "undone", NoKeyboard)
                      EXCEPT !.at = now,
                             !.tx_id = (CHOOSE t \in result.deleted : TRUE).id]
              ELSE [Reply(u, "cmd_undo", "send_message", "nothing_to_undo", NoKeyboard)
                      EXCEPT !.at = now]
        /\ UNCHANGED <<fsm_state, fsm_data>>

(***************************************************************************)
(* handlers/recent.py : handlers                                           *)
(***************************************************************************)
\* callback "recent_transactions"
recent_all(u) ==
    /\ response' = [ recent_page(u, "recent_all", "recent_list", transactions, "all", 0)
                       EXCEPT !.title = <<>> ]
    /\ UNCHANGED <<fsm_state, fsm_data, transactions>>

\* callback "recent:<scope>:<offset>"
recent_paged(u, scope, offset) ==
    /\ response' = recent_page(u, "recent_paged", "recent_list", transactions, scope, offset)
    /\ UNCHANGED <<fsm_state, fsm_data, transactions>>

\* the prompt of tx_delete_prompt
delete_prompt(u, tx_id, scope, offset) ==
    [ Reply(u, "tx_delete_prompt", "edit_text", "delete_prompt",
            { <<"tx", "delconf", tx_id, scope, offset>>, <<"recent", scope, offset>> })
        EXCEPT !.tx_id = tx_id ]

\* tx_delete_prompt deleting the row before asking
tx_delete_prompt_deleting(u, tx_id, scope, offset) ==
    /\ transactions' = delete_transaction_by_id(transactions, u, tx_id, TRUE).rows
    /\ response' = delete_prompt(u, tx_id, scope, offset)
    /\ UNCHANGED <<fsm_state, fsm_data>>

\* callback "tx:del:<id>:<scope>:<offset>"
tx_delete_prompt(u, tx_id, scope, offset) ==
    /\ response' = delete_prompt(u, tx_id, scope, offset)
    /\ UNCHANGED <<fsm_state, fsm_data, transactions>>

\* tx_delete_confirm_response listing the table as it was before the delete
tx_delete_confirm_response_stale(rows, u, tx_id, scope, offset, commit_ok) ==
    LET result == delete_transaction_by_id(rows, u, tx_id, commit_ok)
    IN  [ recent_page(u, "tx_delete_confirm",
                      IF result.ok THEN "deleted" ELSE "delete_failed",
                      rows, scope, offset)
            EXCEPT !.tx_id = tx_id ]

\* what tx_delete_confirm answers on the table `rows`: the callback answer
\* ("deleted" / "delete_failed") as text, with the refreshed listing
tx_delete_confirm_response(rows, u, tx_id, scope, offset, commit_ok) ==
    LET result == delete_transaction_by_id(rows, u, tx_id, commit_ok)
    IN  [ recent_page(u, "tx_delete_confirm",
                      IF result.ok THEN "deleted" ELSE "delete_failed",
                      result.rows, scope, offset)
            EXCEPT !.tx_id = tx_id ]

\* callback "tx:delconf:<id>:<scope>:<offset>"
tx_delete_confirm(u, tx_id, scope, offset, commit_ok) ==
    /\ transactions' = delete_transaction_by_id(transactions, u, tx_id, commit_ok).rows
    /\ response' = tx_delete_confirm_response(transactions, u, tx_id, scope, offset,
                                              commit_ok)
    /\ UNCHANGED <<fsm_state, fsm_data>>

\* the first page of one kind, with the keyboard of view_expenses / view_incomes
kind_page(u, handler, kind, others) ==
    LET items == _fetch_recent(transactions, u, kind, 0)
        forward == IF Len(items) = page_step
                   THEN << <<"recent", kind, page_step>> >> ELSE <<>>
    IN  [ Reply(u, handler, "edit_text", "recent_list",
                others \cup (IF forward # <<>> THEN {forward[1]} ELSE {<<"main_menu">>}))
            EXCEPT !.items = items, !.nav = forward ]

\* callback "view_expenses"
view_expenses(u) ==
    /\ response' = kind_page(u, "view_expenses", "expense",
                             { <<"recent", "all", 0>>, <<"recent", "income", 0>> })
    /\ UNCHANGED <<fsm_state, fsm_data, transactions>>

\* callback "view_incomes"
view_incomes(u) ==
    /\ response' = kind_page(u, "view_incomes", "income",
                             { <<"recent", "expense", 0>>, <<"recent", "all", 0>> })
    /\ UNCHANGED <<fsm_state, fsm_data, transactions>>

(***************************************************************************)
(* Python floats (IEEE 754 binary64, round to nearest even) for the column *)
(* "Сумма" of the report tables.  A float is [e, m]: the value m * 2^e     *)
(* with m a tuple of 53 bits, the most significant first and equal to 1;   *)
(* 0.0 is [e |-> 0, m |-> <<>>].  Only values >= 0 occur.                  *)
(***************************************************************************)
\* the bits of a + b + c for bit tuples a, b of equal length n, as n + 1 bits:
\* a carry enters position i when a lower position generates one (or c does,
\* below the last) and every position in between passes it on
AddC(a, b, c) ==
    LET n == Len(a)
        carry(i) == \E j \in (i + 1)..(n + 1) :
                       /\ IF j = n + 1 THEN c = 1 ELSE a[j] + b[j] = 2
                       /\ \A k \in (i + 1)..(j - 1) : a[k] + b[k] >= 1
    IN  [ p \in 1..(n + 1) |->
            IF p = 1 THEN (IF carry(0) THEN 1 ELSE 0)
            ELSE (a[p - 1] + b[p - 1] + (IF carry(p - 1) THEN 1 ELSE 0)) % 2 ]

\* the float nearest to bits * 2^e (plus a fraction of the last bit when
\* `sticky`), ties to the even mantissa
binary64(bits, e, sticky) ==
    IF \A i \in 1..Len(bits) : bits[i] = 0 THEN [e |-> 0, m |-> <<>>]
    ELSE LET first == CHOOSE i \in 1..Len(bits) :
                         bits[i] = 1 /\ \A j \in 1..(i - 1) : bits[j] = 0
             sig == SubSeq(bits, first, Len(bits))
             L == Len(sig)
         IN  IF L <= 53
             THEN [e |-> e - (53 - L), m |-> sig \o [i \in 1..(53 - L) |-> 0]]
             ELSE LET head == SubSeq(sig, 1, 53)
                      up == /\ sig[54] = 1
                            /\ \/ sticky
                               \/ \E i \in 55..L : sig[i] = 1
                               \/ head[53] = 1
                      inc == AddC(head, [i \in 1..53 |-> 0], 1)
                  IN  IF ~up THEN [e |-> e + (L - 53), m |-> head]
                      ELSE IF inc[1] = 1
                      THEN [e |-> e + (L - 53) + 1, m |-> SubSeq(inc, 1, 53)]
                      ELSE [e |-> e + (L - 53), m |-> Tail(inc)]

\* float(Decimal) of an amount of `cents` hundredths (cents < 2^31): the
\* quotient of cents * 2^72 by 100, by long division in limbs of 24 bits
float(cents) ==
    LET limb == 16777216
        q1 == ((cents % 100) * limb) \div 100
        r1 == ((cents % 100) * limb) % 100
        q2 == (r1 * limb) \div 100
        r2 == (r1 * limb) % 100
        q3 == (r2 * limb) \div 100
        r3 == (r2 * limb) % 100
        q == <<q1, q2, q3>>
        bits == [ i \in 1..103 |->
                    IF i <= 31 THEN ((cents \div 100) \div 2^(31 - i)) % 2
                    ELSE (q[((i - 32) \div 24) + 1] \div 2^(23 - ((i - 32) % 24))) % 2 ]
    IN  binary64(bits, -72, r3 # 0)

\* x + y
fadd(x, y) ==
    IF x.m = <<>> THEN y
    ELSE IF y.m = <<>> THEN x
    ELSE LET hi == IF x.e >= y.e THEN x ELSE y
             lo == IF x.e >= y.e THEN y ELSE x
             shift == [i \in 1..(hi.e - lo.e) |-> 0]
         IN  binary64(AddC(hi.m \o shift, shift \o lo.m, 0), lo.e, FALSE)

\* x < y
fless(x, y) ==
    IF y.m = <<>> THEN FALSE
    ELSE IF x.m = <<>> THEN TRUE
    ELSE \/ x.e < y.e
         \/ /\ x.e = y.e
            /\ \E i \in 1..53 : /\ x.m[i] < y.m[i]
                                /\ \A j \in 1..(i - 1) : x.m[j] = y.m[j]

\* the sum of a column as numpy adds it up: from 0.0, in row order
RECURSIVE fsum(_)
fsum(column) ==
    IF column = <<>> THEN [e |-> 0, m |-> <<>>]
    ELSE fadd(fsum(SubSeq(column, 1, Len(column) - 1)), column[Len(column)])

(***************************************************************************)
(* services/report_service.py.  Times are in days.  A table is a tuple of  *)
(* rows (records); category and subcategory names are the ids (distinct    *)
(* names, str(id) for ids the directory lacks), "-" is 0.                  *)
(***************************************************************************)
\* fetch_transactions comparing effective_at with the end date strictly
fetch_transactions_before_end(rows, user_id, kind, start_date, end_date, filters) ==
    LET lower(s) == [ i \in DOMAIN s |->
                        IF s[i] = "O" THEN "o" ELSE IF s[i] = "K" THEN "k" ELSE s[i] ]
        ilike(s, q) == \E i \in 1..(Len(s) - Len(q) + 1) :
                          SubSeq(lower(s), i, i + Len(q) - 1) = lower(q)
        query ==
          { t \in rows :
              /\ t.user_id = user_id
              /\ t.kind = kind
              /\ t.effective_at >= start_date
              /\ t.effective_at < end_date
              /\ filters.category_ids # {} => t.category_id \in filters.category_ids
              /\ filters.subcategory_ids # {}
                 => t.subcategory_id \in filters.subcategory_ids \ {None}
              /\ \A i \in 1..Len(filters.amount_min) : t.amount >= filters.amount_min[i]
              /\ \A i \in 1..Len(filters.amount_max) : t.amount <= filters.amount_max[i]
              /\ filters.comment_query # <<>>
                 => (t.comment # NoComment /\ ilike(t.comment, filters.comment_query)) }
    IN  [ p \in 1..Cardinality(query) |->
            CHOOSE t \in query :
               Cardinality({ r \in query : r.effective_at < t.effective_at }) = p - 1 ]

\* the filtered rows ordered by effective_at ascending.  filters: category_ids
\* and subcategory_ids (sets, {} when not given), amount_min and amount_max
\* (<<hundredths>>, <<>> for None), comment_query (a text, <<>> when not given)
fetch_transactions(rows, user_id, kind, start_date, end_date, filters) ==
    LET lower(s) == [ i \in DOMAIN s |->
                        IF s[i] = "O" THEN "o" ELSE IF s[i] = "K" THEN "k" ELSE s[i] ]
        ilike(s, q) == \E i \in 1..(Len(s) - Len(q) + 1) :
                          SubSeq(lower(s), i, i + Len(q) - 1) = lower(q)
        query ==
          { t \in rows :
              /\ t.user_id = user_id
              /\ t.kind = kind
              /\ t.effective_at >= start_date
              /\ t.effective_at <= end_date
              /\ filters.category_ids # {} => t.category_id \in filters.category_ids
              /\ filters.subcategory_ids # {}
                 => t.subcategory_id \in filters.subcategory_ids \ {None}
              /\ \A i \in 1..Len(filters.amount_min) : t.amount >= filters.amount_min[i]
              /\ \A i \in 1..Len(filters.amount_max) : t.amount <= filters.amount_max[i]
              /\ filters.comment_query # <<>>
                 => (t.comment # NoComment /\ ilike(t.comment, filters.comment_query)) }
    IN  [ p \in 1..Cardinality(query) |->
            CHOOSE t \in query :
               Cardinality({ r \in query : r.effective_at < t.effective_at }) = p - 1 ]

\* columns "Дата", "Категория", "Подкатегория", "Сумма", "Комментарий"
_build_dataframe(fetched) ==
    [ i \in DOMAIN fetched |->
        [ date |-> fetched[i].effective_at,
          category |-> fetched[i].category_id,
          subcategory |-> IF get_category_by_id(fetched[i].subcategory_id) # {}
                          THEN fetched[i].subcategory_id ELSE None,
          amount |-> float(fetched[i].amount),
          comment |-> fetched[i].comment ] ]

\* groupby(by)["Сумма"] with count and sum, keys[i] being the `by` columns of
\* row i: one row per key (in the order the keys first occur), the sum adding
\* the group's rows in row order
groupby(df, keys) ==
    LET firsts == { i \in DOMAIN df : \A j \in 1..(i - 1) : keys[j] # keys[i] }
        group == [ i \in firsts |->
                     LET members == { k \in DOMAIN df : keys[k] = keys[i] }
                     IN  [ p \in 1..Cardinality(members) |->
                             df[CHOOSE k \in members :
                                   Cardinality({ m \in members : m < k }) = p - 1].amount ] ]
    IN  [ p \in 1..Cardinality(firsts) |->
            LET i == CHOOSE i \in firsts : Cardinality({ j \in firsts : j < i }) = p - 1
            IN  [ key |-> keys[i], count |-> Len(group[i]), amount |-> fsum(group[i]) ] ]

\* sort_values("Сумма", ascending=True)
sort_values_ascending(table) ==
    LET rank == [ i \in DOMAIN table |->
                    Cardinality({ j \in DOMAIN table :
                                    \/ fless(table[j].amount, table[i].amount)
                                    \/ (table[j].amount = table[i].amount /\ j < i) }) ]
    IN  [ p \in DOMAIN table |-> table[CHOOSE i \in DOMAIN table : rank[i] = p - 1] ]

\* sort_values("Сумма", ascending=False)
sort_values(table) ==
    LET rank == [ i \in DOMAIN table |->
                    Cardinality({ j \in DOMAIN table :
                                    \/ fless(table[i].amount, table[j].amount)
                                    \/ (table[j].amount = table[i].amount /\ j < i) }) ]
    IN  [ p \in DOMAIN table |-> table[CHOOSE i \in DOMAIN table : rank[i] = p - 1] ]

Aggregations ==
    { "detail", "by_category", "by_subcategory", "overall", "by_category_sections" }

\* the aggregated table and its title ("None" for no title)
_aggregate_df(df, mode) ==
    IF df = <<>> \/ mode = "None" \/ mode = "detail" THEN [df |-> df, title |-> "None"]
    ELSE IF mode = "by_category"
    THEN [ df |-> LET agg == sort_values(groupby(df, [ i \in DOMAIN df |-> df[i].category ]))
                  IN  [ i \in DOMAIN agg |->
                          [ category |-> agg[i].key, count |-> agg[i].count,
                            amount |-> agg[i].amount ] ],
           title |-> "by_category" ]
    ELSE IF mode = "by_subcategory"
    THEN [ df |-> LET agg == sort_values(
                                groupby(df, [ i \in DOMAIN df |->
                                                <<df[i].category, df[i].subcategory>> ]))
                  IN  [ i \in DOMAIN agg |->
                          [ category |-> agg[i].key[1], subcategory |-> agg[i].key[2],
                            amount |-> agg[i].amount ] ],
           title |-> "by_subcategory" ]
    ELSE IF mode = "overall"
    THEN [ df |-> << [metric |-> "sum", value |-> fsum([ i \in DOMAIN df |-> df[i].amount ])],
                     [metric |-> "count", value |-> Len(df)] >>,
           title |-> "overall" ]
    ELSE [df |-> df, title |-> "None"]

\* png_tables: per category, by total descending, the table of its
\* subcategories' sums by sum descending; the sheets dict has the same items
_build_category_sections(df) ==
    LET cats == sort_values(groupby(df, [ i \in DOMAIN df |-> df[i].category ]))
    IN  [ c \in DOMAIN cats |->
            [ cat_name |-> cats[c].key,
              sub |-> LET rows == SelectSeq(df, LAMBDA r : r.category = cats[c].key)
                          sums == sort_values(
                                    groupby(rows, [ i \in DOMAIN rows |-> rows[i].subcategory ]))
                      IN  [ i \in DOMAIN sums |->
                              [subcategory |-> sums[i].key, amount |-> sums[i].amount] ] ] ]

\* tables of one chart at most
max_tables == 12

\* what build_report returns or raises, with what it wrote: summary, the data
\* sheet (df), the table drawn (display_df) with its title, the names of the
\* workbook's fixed and aggregate sheets, the per-category sheets and the
\* per-category tables drawn.  ax.table() raises IndexError for a table
\* without rows (cols = len(cellText[0])).
build_report(rows, user_id, kind, start_date, end_date, filters, aggregation) ==
    LET df == _build_dataframe(fetch_transactions(rows, user_id, kind, start_date,
                                                  end_date, filters))
        summary == [ kind |-> kind,
                     total |-> fsum([ i \in DOMAIN df |-> df[i].amount ]),
                     count |-> Len(df) ]
        made == [ summary |-> summary, df |-> df, display_df |-> <<>>, title |-> "None",
                  sheets |-> <<"data", "summary", "meta">>, extra_sheets |-> <<>>,
                  png_tables |-> <<>>, chart |-> "none", raised |-> "none" ]
    IN  IF aggregation = "by_category_sections" /\ kind = "expense"
        THEN LET png_tables == _build_category_sections(df)
                 shown == IF Len(png_tables) < max_tables
                          THEN Len(png_tables) ELSE max_tables
             IN  [ made EXCEPT !.extra_sheets = png_tables,
                               !.png_tables = SubSeq(png_tables, 1, shown),
                               !.chart = IF png_tables = <<>> THEN "no_data"
                                         ELSE "sections" ]
        ELSE LET agg == _aggregate_df(df, aggregation)
                 display_df == IF agg.title # "None" THEN agg.df ELSE df
             IN  [ made EXCEPT !.display_df = display_df,
                               !.title = agg.title,
                               !.sheets = IF agg.title # "None"
                                          THEN Append(@, "aggregate")
                                          ELSE @,
                               !.chart = IF display_df = <<>> THEN "none" ELSE "table",
                               !.raised = IF display_df = <<>> THEN "IndexError"
                                          ELSE "none" ]

(***************************************************************************)
(* handlers/report.py : handle_export, callback "export:<kind>:<days>" or  *)
(* "export:<kind>:<days>:<aggregation>"; now: what datetime.utcnow() gives *)
(***************************************************************************)
NoFilters ==
    [ category_ids |-> {}, subcategory_ids |-> {}, amount_min |-> <<>>,
      amount_max |-> <<>>, comment_query |-> <<>> ]

handle_export(u, kind_str, days, aggregation, now) ==
    LET kind == IF kind_str = "expense" THEN "expense" ELSE "income"
        report == build_report(transactions, u, kind, now - days, now, NoFilters,
                               aggregation)
    IN  /\ response' =
              IF report.raised # "none"
              THEN [ Raised(u, "handle_export", report.raised)
                       EXCEPT !.report = <<report>>, !.at = now,
                              !.title = <<kind_str, days, aggregation>> ]
              ELSE [ Reply(u, "handle_export", "answer_document", "done",
                           get_main_keyboard)
                       EXCEPT !.report = <<report>>, !.at = now,
                              !.title = <<kind_str, days, aggregation>> ]
        /\ UNCHANGED <<fsm_state, fsm_data, transactions>>

(***************************************************************************)
(* services/transaction_service.py : get_user_transactions (as a set)      *)
(***************************************************************************)
get_user_transactions(rows, user_id) == { t \in rows : t.user_id = user_id }

(***************************************************************************)
(* Specification of the recording flow: the updates of one user, handled   *)
(* one at a time; the comment step is skipped.                             *)
(***************************************************************************)
Actors == {1}

StartExpense == \E u \in Actors : process_expense(u)
StartIncome == \E u \in Actors : process_income(u)
SelectCategory ==
    \E u \in Actors, id \in CategoryButtonIds : process_category_selection(u, id)
QuickIncome == \E u \in Actors, id \in QuickIncomeIds : process_quick_income(u, id)
SelectSubcategory ==
    \E u \in Actors, id \in SubcategoryIds : process_subcategory_selection(u, id)
SkipComment == \E u \in Actors : process_comment(u, SkipText)
SubmitAmount == \E u \in Actors, text \in AmountTexts : process_amount(u, text)
Confirm == \E u \in Actors, commit_ok \in BOOLEAN : process_confirmation(u, commit_ok)
Cancel == \E u \in Actors : process_cancel(u)
MainMenu == \E u \in Actors : process_main_menu(u)
AddAnother == \E u \in Actors : process_add_another(u)

Next ==
    \/ StartExpense /\ Sequential
    \/ StartIncome /\ Sequential
    \/ SelectCategory /\ Sequential
    \/ QuickIncome /\ Sequential
    \/ SelectSubcategory /\ Sequential
    \/ SkipComment /\ Sequential
    \/ SubmitAmount /\ Sequential
    \/ Confirm /\ Sequential
    \/ Cancel /\ Sequential
    \/ MainMenu /\ Sequential
    \/ AddAnother /\ Sequential

Spec == Init /\ [][Next]_vars

(***************************************************************************)
(* Specification of the stored values: the expense flow through a category *)
(* without subcategories, with comments and with amount texts that carry   *)
(* fractional digits.                                                      *)
(***************************************************************************)
LeafExpenseIds ==
    { c.id : c \in { r \in get_categories_by_kind("expense") : get_subcategories(r.id) = {} } }

SelectLeafCategory ==
    \E u \in Actors, id \in LeafExpenseIds : process_category_selection(u, id)
SubmitComment == \E u \in Actors, text \in CommentTexts : process_comment(u, text)
SubmitPreciseAmount ==
    \E u \in Actors, text \in PreciseAmountTexts : process_amount(u, text)

NextAmounts ==
    \/ StartExpense /\ Sequential
    \/ SelectLeafCategory /\ Sequential
    \/ SubmitComment /\ Sequential
    \/ SubmitPreciseAmount /\ Sequential
    \/ Confirm /\ Sequential
    \/ Cancel /\ Sequential

SpecAmounts == Init /\ [][NextAmounts]_vars

(***************************************************************************)
(* Specification of the amount parsing rule: an expense flow entered from  *)
(* the idle state, in which one text of ParseTexts is submitted as the     *)
(* amount before the flow is cancelled.                                    *)
(***************************************************************************)
StartFromIdle == \E u \in Actors : fsm_state[u] = NoState /\ process_expense(u)
SelectLeafInStep ==
    \E u \in Actors, id \in LeafExpenseIds :
        fsm_state[u] = "waiting_for_category" /\ process_category_selection(u, id)
SubmitParsedAmount ==
    \E u \in Actors, text \in ParseTexts :
        response.handler # "process_amount" /\ process_amount(u, text)

NextParse ==
    \/ StartFromIdle /\ Sequential
    \/ SelectLeafInStep /\ Sequential
    \/ SkipComment /\ Sequential
    \/ SubmitParsedAmount /\ Sequential
    \/ Cancel /\ Sequential

SpecParse == Init /\ [][NextParse]_vars

(***************************************************************************)
(* Specification of the amount validation: the expense flow with signed    *)
(* and zero amount texts.                                                  *)
(***************************************************************************)
SubmitSignedAmount ==
    \E u \in Actors, text \in SignedAmountTexts : process_amount(u, text)

NextSigned ==
    \/ StartExpense /\ Sequential
    \/ SelectLeafCategory /\ Sequential
    \/ SubmitComment /\ Sequential
    \/ SubmitSignedAmount /\ Sequential
    \/ Confirm /\ Sequential
    \/ Cancel /\ Sequential

SpecSigned == Init /\ [][NextSigned]_vars

(***************************************************************************)
(* Stored tables for the browser specifications: rows as the recording     *)
(* flow stores them (ids and times in creation order).                     *)
(***************************************************************************)
StoredRow(i, owner, kind) ==
    [ id |-> i, user_id |-> owner, kind |-> kind,
      category_id |-> IF kind = "expense" THEN 50 ELSE 101,
      subcategory_id |-> None, amount |-> 10000, comment |-> NoComment,
      created_at |-> i, effective_at |-> i ]

Scopes == { "all", "expense", "income" }

(***************************************************************************)
(* Specification of the delete flow: up to MaxStored rows owned by either  *)
(* user; both users request, confirm and cancel deletions.                 *)
(***************************************************************************)
MaxStored == 3

\* ids in "tx:del:" / "tx:delconf:" data: the stored ones and one never stored
DeleteIds == 1..(MaxStored + 1)

InitDelete ==
    /\ fsm_state = [u \in Users |-> NoState]
    /\ fsm_data = [u \in Users |-> EmptyData]
    /\ response = NoResponse
    /\ \E n \in 0..MaxStored :
          \E owner \in [1..n -> Users] :
             transactions =
                 { StoredRow(i, owner[i], IF i % 2 = 1 THEN "expense" ELSE "income") :
                     i \in 1..n }
    /\ chat = <<>>
    /\ tasks = <<>>

RequestDelete ==
    \E u \in Users, id \in DeleteIds, scope \in Scopes : tx_delete_prompt(u, id, scope, 0)
ConfirmDelete ==
    \E u \in Users, id \in DeleteIds, scope \in Scopes, commit_ok \in BOOLEAN :
        tx_delete_confirm(u, id, scope, 0, commit_ok)
\* the cancel button of the prompt: "recent:<scope>:<offset>"
CancelDelete ==
    \E u \in Users, scope \in Scopes :
        /\ response.user = u /\ response.handler = "tx_delete_prompt"
        /\ <<"recent", scope, 0>> \in response.keyboard
        /\ recent_paged(u, scope, 0)
RecentAll == \E u \in Users : recent_all(u)

NextDelete ==
    \/ RequestDelete /\ Sequential
    \/ ConfirmDelete /\ Sequential
    \/ CancelDelete /\ Sequential
    \/ RecentAll /\ Sequential

SpecDelete == InitDelete /\ [][NextDelete]_vars

(***************************************************************************)
(* Specification of the listing: a table of up to MaxRows rows, browsed by *)
(* user 1; with `foreign` every fourth row belongs to user 2, with `mixed` *)
(* every third row is an income.                                           *)
(***************************************************************************)
MaxRows == 21

\* offsets the navigation rows can carry
Offsets == { page_step * k : k \in 0..((MaxRows \div page_step) + 1) }

InitBrowse ==
    /\ fsm_state = [u \in Users |-> NoState]
    /\ fsm_data = [u \in Users |-> EmptyData]
    /\ response = NoResponse
    /\ \E n \in 0..MaxRows, foreign \in BOOLEAN, mixed \in BOOLEAN :
          transactions =
              { StoredRow(i, IF foreign /\ i % 4 = 0 THEN 2 ELSE 1,
                          IF mixed /\ i % 3 = 0 THEN "income" ELSE "expense") :
                  i \in 1..n }
    /\ chat = <<>>
    /\ tasks = <<>>

RequestRecentAll == \E u \in Actors : recent_all(u)
RequestRecent ==
    \E u \in Actors, scope \in Scopes, offset \in Offsets : recent_paged(u, scope, offset)
ViewExpenses == \E u \in Actors : view_expenses(u)
ViewIncomes == \E u \in Actors : view_incomes(u)

NextBrowse ==
    \/ RequestRecentAll /\ Sequential
    \/ RequestRecent /\ Sequential
    \/ ViewExpenses /\ Sequential
    \/ ViewIncomes /\ Sequential

SpecBrowse == InitBrowse /\ [][NextBrowse]_vars

(***************************************************************************)
(* Specification of deleting from a page: a table of up to MaxPageRows     *)
(* rows (all of user 1 and expenses, or with every fourth row of user 2    *)
(* and every third an income); user 1 opens pages and confirms deletions   *)
(* from the page shown, for ids on the page and ids that are not.          *)
(***************************************************************************)
MaxPageRows == 12
\* rows the deletions may have removed below the newest stored id
MaxDeleted == 1

InitDeletePage ==
    /\ fsm_state = [u \in Users |-> NoState]
    /\ fsm_data = [u \in Users |-> EmptyData]
    /\ response = NoResponse
    /\ \E n \in 0..MaxPageRows, varied \in BOOLEAN :
          transactions =
              { StoredRow(i, IF varied /\ i % 4 = 0 THEN 2 ELSE 1,
                          IF varied /\ i % 3 = 0 THEN "income" ELSE "expense") :
                  i \in 1..n }
    /\ chat = <<>>
    /\ tasks = <<>>

OpenPage ==
    \E u \in Actors, scope \in Scopes, k \in 0..(MaxPageRows \div page_step) :
        recent_paged(u, scope, page_step * k)
\* "tx:delconf:<id>:<scope>:<offset>" for the page shown, with a stored id or
\* one never stored; at most MaxDeleted ids below the newest are gone
ConfirmDeleteOnPage ==
    \E u \in Actors, id \in 1..(MaxPageRows + 1), commit_ok \in BOOLEAN :
        /\ response.user = u /\ response.title # <<>>
        /\ tx_delete_confirm(u, id, response.title[1], response.title[2], commit_ok)
        /\ Cardinality((1..(NextId(transactions') - 1))
                          \ { r.id : r \in transactions' }) <= MaxDeleted

NextDeletePage ==
    \/ OpenPage /\ Sequential
    \/ ConfirmDeleteOnPage /\ Sequential

SpecDeletePage == InitDeletePage /\ [][NextDeletePage]_vars

(***************************************************************************)
(* Specification of undo: a table of up to MaxUndoRows rows of either user *)
(* created at increasing times up to MaxTime; user 1 records expenses and  *)
(* both users send /undo, read by a clock that is not behind the newest    *)
(* stored row.                                                             *)
(***************************************************************************)
MaxUndoRows == 2
MaxTime == 3

InitUndo ==
    /\ fsm_state = [u \in Users |-> NoState]
    /\ fsm_data = [u \in Users |-> EmptyData]
    /\ response = NoResponse
    /\ \E n \in 0..MaxUndoRows :
          \E owner \in [1..n -> Users], time \in [1..n -> 1..MaxTime] :
             /\ \A i, j \in 1..n : i < j => time[i] < time[j]
             /\ transactions =
                   { [ StoredRow(i, owner[i], "expense")
                         EXCEPT !.created_at = time[i], !.effective_at = time[i] ] :
                       i \in 1..n }
    /\ chat = <<>>
    /\ tasks = <<>>

ConfirmStored ==
    \E u \in Actors : process_confirmation_upto(u, TRUE, MaxUndoRows + 1)
RequestUndo ==
    \E u \in Users, now \in 1..(MaxTime + undo_minutes + 2), commit_ok \in BOOLEAN :
        /\ now + 1 >= utcnow(transactions)
        /\ cmd_undo(u, now, commit_ok)

NextUndo ==
    \/ StartFromIdle /\ Sequential
    \/ SelectLeafInStep /\ Sequential
    \/ SkipComment /\ Sequential
    \/ SubmitAmount /\ Sequential
    \/ ConfirmStored /\ Sequential
    \/ RequestUndo /\ Sequential

SpecUndo == InitUndo /\ [][NextUndo]_vars

(***************************************************************************)
(* Specification of the reports: user 1 requests the reports of the export *)
(* menu (30 days, every aggregation, both kinds) at the time of the newest *)
(* row or on day 32.  The table holds up to MaxReportRows rows, row i of   *)
(* day i and of i tenths, each an expense of user 1 in category 36, in     *)
(* 36 / 40 or in 50, an income of user 1, or an expense of user 2; or it   *)
(* holds up to MaxCategories expenses of user 1, each in a category of its *)
(* own, with amounts rising or falling.  Each behaviour is one request.    *)
(***************************************************************************)
MaxReportRows == 3
MaxCategories == 13

InitReport ==
    /\ fsm_state = [u \in Users |-> NoState]
    /\ fsm_data = [u \in Users |-> EmptyData]
    /\ response = NoResponse
    /\ \/ \E n \in 0..MaxReportRows :
             \E option \in [1..n -> 1..5] :
                transactions =
                  { [ StoredRow(i, IF option[i] = 5 THEN 2 ELSE 1,
                                IF option[i] = 4 THEN "income" ELSE "expense")
                        EXCEPT !.category_id = IF option[i] \in {1, 2} THEN 36 ELSE @,
                               !.subcategory_id = IF option[i] = 2 THEN 40 ELSE None,
                               !.amount = 10 * i ] : i \in 1..n }
       \/ \E n \in (MaxReportRows + 1)..MaxCategories, falling \in BOOLEAN :
             transactions =
               { [ StoredRow(i, 1, "expense")
                     EXCEPT !.category_id = 200 + i,
                            !.amount = 10 * (IF falling THEN n + 1 - i ELSE i) ] :
                   i \in 1..n }
    /\ chat = <<>>
    /\ tasks = <<>>

RequestReport ==
    /\ response = NoResponse
    /\ \E u \in Actors, kind_str \in TransactionKind,
          aggregation \in Aggregations \cup {"None"},
          now \in {utcnow(transactions) - 1, 32} :
           handle_export(u, kind_str, 30, aggregation, now)

NextReport ==
    \/ RequestReport /\ Sequential

SpecReport == InitReport /\ [][NextReport]_vars

(***************************************************************************)
(* Specification of selections with ids the directory lacks: the recording *)
(* flow of one user, and at any point a category, quick income or          *)
(* subcategory callback whose id is not in the category table (the quick   *)
(* income keyboard renders two such buttons).                              *)
(***************************************************************************)
UnknownIds ==
    { k[2] : k \in { b \in get_quick_income_keyboard :
                         b[1] = "quick_income" /\ get_category_by_id(b[2]) = {} } }

NextNotFound ==
    \/ StartExpense /\ Sequential
    \/ StartIncome /\ Sequential
    \/ SelectCategory /\ Sequential
    \/ SelectSubcategory /\ Sequential
    \/ SkipComment /\ Sequential
    \/ SubmitAmount /\ Sequential
    \/ \E u \in Actors, id \in UnknownIds : process_category_selection(u, id) /\ Sequential
    \/ \E u \in Actors, id \in UnknownIds : process_quick_income(u, id) /\ Sequential
    \/ \E u \in Actors, id \in UnknownIds : process_subcategory_selection(u, id) /\ Sequential

SpecNotFound == Init /\ [][NextNotFound]_vars

(***************************************************************************)
(* Specification of interrupted recording: the table holds up to           *)
(* MaxUndoRows rows, of user 1 and user 2 in turn, and one more at most is *)
(* recorded; user 1 records expenses and, in any step, browses             *)
(* the recent operations, asks for and confirms a deletion, sends /undo or *)
(* requests a report.                                                      *)
(***************************************************************************)
InitInterrupt ==
    /\ fsm_state = [u \in Users |-> NoState]
    /\ fsm_data = [u \in Users |-> EmptyData]
    /\ response = NoResponse
    /\ \E n \in 0..MaxUndoRows :
          transactions = { StoredRow(i, IF i % 2 = 1 THEN 1 ELSE 2, "expense") : i \in 1..n }
    /\ chat = <<>>
    /\ tasks = <<>>

NextInterrupt ==
    \/ StartFromIdle /\ Sequential
    \/ SelectLeafInStep /\ Sequential
    \/ SkipComment /\ Sequential
    \/ SubmitAmount /\ Sequential
    \/ ConfirmStored /\ Sequential
    \/ \E u \in Actors : recent_all(u) /\ Sequential
    \/ \E u \in Actors, scope \in Scopes : recent_paged(u, scope, 0) /\ Sequential
    \/ \E u \in Actors, id \in 1..MaxUndoRows : tx_delete_prompt(u, id, "all", 0) /\ Sequential
    \/ \E u \in Actors, id \in 1..MaxUndoRows, commit_ok \in BOOLEAN :
          tx_delete_confirm(u, id, "all", 0, commit_ok) /\ Sequential
    \/ \E u \in Actors, commit_ok \in BOOLEAN :
          cmd_undo(u, utcnow(transactions), commit_ok) /\ Sequential
    \/ \E u \in Actors, aggregation \in {"detail", "by_category_sections"} :
          handle_export(u, "expense", 30, aggregation, utcnow(transactions)) /\ Sequential

SpecInterrupt == InitInterrupt /\ [][NextInterrupt]_vars

(***************************************************************************)
(* Specification of two users: the updates of user 1 and user 2 arrive in  *)
(* any order, each handled to its end before the next (one event loop);    *)
(* each user records expenses step by step and may cancel.                 *)
(***************************************************************************)
NextUsers ==
    \/ \E u \in Users : fsm_state[u] = NoState /\ process_expense(u) /\ Sequential
    \/ \E u \in Users, id \in CategoryButtonIds :
          /\ fsm_state[u] = "waiting_for_category"
          /\ get_category_by_id(id) # {} /\ process_category_selection(u, id) /\ Sequential
    \/ \E u \in Users, id \in SubcategoryIds :
          fsm_state[u] = "waiting_for_subcategory" /\ process_subcategory_selection(u, id) /\ Sequential
    \/ \E u \in Users : process_comment(u, SkipText) /\ Sequential
    \/ \E u \in Users : process_amount(u, Text100) /\ Sequential
    \/ \E u \in Users :
          /\ fsm_state[u] = "waiting_for_confirmation"
          /\ process_confirmation_upto(u, TRUE, MaxTransactions + 1) /\ Sequential
    \/ \E u \in Users : fsm_state[u] # NoState /\ process_cancel(u) /\ Sequential

SpecUsers == Init /\ [][NextUsers]_vars

(***************************************************************************)
(* Specification of the event loop: dp.start_polling handles every update  *)
(* in a task of its own, and no lock is held per chat, so the handlers of  *)
(* one user run interleaved.  A handler runs without interruption up to    *)
(* its next call of the Bot API or of the database (the FSM storage is in  *)
(* memory and answers at once); a task in `tasks` is an instance waiting   *)
(* at such a call, `pc` naming the call it resumes with.                   *)
(*   chat: the messages the bot has sent, in order; the n-th message has   *)
(*   the message_id ToString(n), `shown` is FALSE once it is deleted.      *)
(*   User 1 has chosen "expense" and the category 50 on message 1, which   *)
(*   process_category_selection has edited into the comment prompt and     *)
(*   stored as last_bot_message_id.  The user then sends the texts "-",    *)
(*   "100", "abc" and "/start" and presses the confirm button on a message *)
(*   the chat shows.                                                       *)
(***************************************************************************)
\* handler instances in flight at once
MaxTasks == 2
\* messages the bot sends into the chat
MaxMessages == 4
\* rows the confirmations may store
MaxCommits == 2

InitTasks ==
    /\ fsm_state = [u \in Users |-> IF u \in Actors THEN "waiting_for_comment" ELSE NoState]
    /\ fsm_data = [u \in Users |->
           IF u \in Actors
           THEN [EmptyData EXCEPT !.kind = "expense", !.category_id = 50,
                                 !.last_bot_message_id = ToString(1)]
           ELSE EmptyData]
    /\ transactions = {}
    /\ response = Reply(1, "process_category_selection", "edit_text", "enter_comment",
                        get_cancel_keyboard)
    /\ chat = << [keyboard |-> get_cancel_keyboard, shown |-> TRUE] >>
    /\ tasks = <<>>

\* utils/message_utils.py : _send_step_message, call by call.  A step
\* returns what the instance leaves behind: itself, the state and the data
\* of its user, the table, the chat and the response (pc "end": returned).
_send_step_message_steps(t) ==
    LET u == t.user
        w == [ task |-> t, state |-> fsm_state[u], data |-> fsm_data[u],
               rows |-> transactions, chat |-> chat, response |-> response ]
        prev_id == fsm_data[u].last_bot_message_id
    IN  CASE t.pc = "get_data" ->
                 [w EXCEPT !.task = [t EXCEPT !.prev_id = prev_id,
                                              !.pc = IF prev_id # NoMessage
                                                     THEN "delete_message"
                                                     ELSE "send_message"]]
          [] t.pc = "delete_message" ->
                 \* a message already deleted raises; the exception is passed over
                 [w EXCEPT !.task.pc = "send_message",
                           !.chat = [i \in DOMAIN chat |->
                                        IF ToString(i) = t.prev_id
                                        THEN [chat[i] EXCEPT !.shown = FALSE]
                                        ELSE chat[i]]]
          [] t.pc = "send_message" ->
                 [w EXCEPT !.task = [t EXCEPT !.msg = ToString(Len(chat) + 1),
                                              !.pc = "update_data"],
                           !.chat = Append(chat, [keyboard |-> t.reply_markup,
                                                  shown |-> TRUE])]
          [] t.pc = "update_data" ->
                 [w EXCEPT !.task.pc = "end",
                           !.data.last_bot_message_id = t.msg,
                           !.response = Reply(u, t.handler, "send_message", t.say,
                                              t.reply_markup)]

\* main.py : process_comment, up to message.delete() and from there on
process_comment_steps(t) ==
    LET u == t.user
        w == [ task |-> t, state |-> fsm_state[u], data |-> fsm_data[u],
               rows |-> transactions, chat |-> chat, response |-> response ]
        stripped == strip(t.text)
        comment == IF stripped = <<"-">> THEN NoComment ELSE stripped
    IN  IF t.pc = "start"
        THEN [w EXCEPT !.data.comment = comment,
                       !.state = "waiting_for_amount",
                       !.task = [t EXCEPT !.pc = "get_data", !.say = "enter_amount",
                                          !.reply_markup = get_cancel_keyboard]]
        ELSE _send_step_message_steps(t)

\* main.py : process_amount, up to message.delete() and from there on
process_amount_steps(t) ==
    LET u == t.user
        w == [ task |-> t, state |-> fsm_state[u], data |-> fsm_data[u],
               rows |-> transactions, chat |-> chat, response |-> response ]
        amount == parse_amount(t.text)
        data == fsm_data[u]
    IN  IF t.pc = "start"
        THEN [w EXCEPT !.task.pc = "parse_amount"]
        ELSE IF t.pc # "parse_amount"
        THEN _send_step_message_steps(t)
        ELSE IF amount = <<>>
        THEN _send_step_message_steps(
                 [t EXCEPT !.pc = "get_data", !.say = "bad_amount_format",
                           !.reply_markup = get_cancel_keyboard])
        ELSE IF NotPositive(amount[1])
        THEN _send_step_message_steps(
                 [t EXCEPT !.pc = "get_data", !.say = "amount_not_positive",
                           !.reply_markup = get_cancel_keyboard])
        ELSE IF data.kind = NoKind \/ data.category_id = None
        THEN [w EXCEPT !.data.amount = amount,
                       !.task.pc = "end",
                       !.response = [Raised(u, "process_amount", "KeyError")
                                         EXCEPT !.input = t.text]]
        ELSE IF process_amount_confirm_args # get_confirm_keyboard_params
        THEN \* the call of get_confirm_keyboard raises after set_state
             [w EXCEPT !.data.amount = amount,
                       !.state = "waiting_for_confirmation",
                       !.task.pc = "end",
                       !.response = [Raised(u, "process_amount", "TypeError")
                                         EXCEPT !.input = t.text]]
        ELSE [_send_step_message_steps(
                  [t EXCEPT !.pc = "get_data", !.say = "confirm_summary",
                            !.reply_markup = get_confirm_keyboard("transaction", "data")])
                 EXCEPT !.data.amount = amount,
                        !.state = "waiting_for_confirmation"]

\* main.py : process_confirmation, call by call: the draft is read at the
\* start, the row is written by session.commit(), the state is cleared when
\* session.refresh() has returned, the callback's message is edited last
process_confirmation_steps(t) ==
    LET u == t.user
        w == [ task |-> t, state |-> fsm_state[u], data |-> fsm_data[u],
               rows |-> transactions, chat |-> chat, response |-> response ]
        data == t.data
        shown == \E i \in DOMAIN chat : ToString(i) = t.message /\ chat[i].shown
        edit_text(reply_markup) ==
            [i \in DOMAIN chat |->
                IF ToString(i) = t.message
                THEN [chat[i] EXCEPT !.keyboard = reply_markup]
                ELSE chat[i]]
    IN  CASE t.pc = "start" ->
                 IF fsm_data[u].category_id = None
                 THEN \* int(None)
                      [w EXCEPT !.task.pc = "end",
                                !.response = Raised(u, "process_confirmation", "TypeError")]
                 ELSE IF fsm_data[u].amount = NoAmount
                 THEN [w EXCEPT !.task.pc = "end",
                                !.response = Reply(u, "process_confirmation", "answer",
                                                   "amount_error", NoKeyboard)]
                 ELSE IF fsm_data[u].kind \notin TransactionKind
                 THEN \* TransactionKind(None) raises ValueError inside the try block
                      [w EXCEPT !.task = [t EXCEPT !.data = fsm_data[u],
                                                   !.pc = "edit_failure"]]
                 ELSE \* Transaction(...) is built and added, commit() is awaited
                      [w EXCEPT !.task = [t EXCEPT !.data = fsm_data[u],
                                                   !.at = utcnow(transactions),
                                                   !.pc = "commit"]]
          [] t.pc = "commit" ->
                 IF ~t.commit_ok
                 THEN \* rollback, re-raise, caught by the handler
                      [w EXCEPT !.task.pc = "edit_failure"]
                 ELSE LET transaction ==
                              [create_transaction(transactions, u, data.kind,
                                                  data.category_id, data.subcategory_id,
                                                  data.amount[1], data.comment)
                                   EXCEPT !.effective_at = t.at]
                      IN  [w EXCEPT !.rows = transactions \cup {transaction},
                                    !.task = [t EXCEPT !.tx_id = transaction.id,
                                                       !.pc = "clear"]]
          [] t.pc = "clear" ->
                 [w EXCEPT !.state = NoState, !.data = EmptyData,
                           !.task.pc = "edit_text"]
          [] t.pc = "edit_text" ->
                 IF shown
                 THEN [w EXCEPT !.chat = edit_text(get_quick_actions_keyboard),
                                !.task.pc = "end",
                                !.response =
                                    [Reply(u, "process_confirmation", "edit_text", "saved",
                                           get_quick_actions_keyboard)
                                         EXCEPT !.amount = data.amount,
                                                !.tx_id = t.tx_id]]
                 ELSE \* TelegramBadRequest inside the try block
                      [w EXCEPT !.task.pc = "edit_failure"]
          [] t.pc = "edit_failure" ->
                 IF shown
                 THEN [w EXCEPT !.chat = edit_text(get_main_keyboard),
                                !.task.pc = "end",
                                !.response = Reply(u, "process_confirmation", "edit_text",
                                                   "save_failed", get_main_keyboard)]
                 ELSE [w EXCEPT !.task.pc = "end",
                                !.response = Raised(u, "process_confirmation",
                                                    "TelegramBadRequest")]

\* main.py : cmd_start, up to get_or_create_user and from there on:
\* message.answer sends a new message and stores no id
cmd_start_steps(t) ==
    LET u == t.user
        w == [ task |-> t, state |-> fsm_state[u], data |-> fsm_data[u],
               rows |-> transactions, chat |-> chat, response |-> response ]
    IN  IF t.pc = "start"
        THEN [w EXCEPT !.task.pc = "answer"]
        ELSE [w EXCEPT !.task.pc = "end",
                       !.chat = Append(chat, [keyboard |-> get_main_keyboard,
                                              shown |-> TRUE]),
                       !.response = Reply(u, "cmd_start", "send_message", "welcome",
                                          get_main_keyboard)]

\* the handler an instance belongs to runs it from its pc to its next call
run(t) ==
    CASE t.handler = "cmd_start" -> cmd_start_steps(t)
      [] t.handler = "process_comment" -> process_comment_steps(t)
      [] t.handler = "process_amount" -> process_amount_steps(t)
      [] t.handler = "process_confirmation" -> process_confirmation_steps(t)

\* An update arrives and its task runs up to the first call it waits at.
\* The handlers are tried in the order of their registration: Command("start"),
\* then the state filters of process_comment and process_amount; the data
\* filter of process_confirmation.  limit: the instances that may be in
\* flight once the task has started.
Deliver(limit) ==
    LET messages == { [kind |-> "message", text |-> text, message |-> NoMessage,
                       commit_ok |-> TRUE] :
                         text \in { SkipText, Text100, <<"a", "b", "c">>,
                                    <<"/", "s", "t", "a", "r", "t">> } }
        callbacks == { [kind |-> "callback", text |-> <<>>, message |-> ToString(i),
                        commit_ok |-> ok] :
                          i \in { k \in DOMAIN chat : chat[k].shown }, ok \in BOOLEAN }
    IN  \E u \in Actors, update \in messages \cup callbacks :
          LET handler ==
                  IF update.kind = "callback" THEN "process_confirmation"
                  ELSE IF update.text = <<"/", "s", "t", "a", "r", "t">> THEN "cmd_start"
                  ELSE IF fsm_state[u] = "waiting_for_comment" THEN "process_comment"
                  ELSE IF fsm_state[u] = "waiting_for_amount" THEN "process_amount"
                  ELSE "none"
              t == [ handler |-> handler, user |-> u, pc |-> "start",
                     text |-> update.text, message |-> update.message,
                     commit_ok |-> update.commit_ok, data |-> EmptyData,
                     at |-> 0, tx_id |-> None, prev_id |-> NoMessage,
                     msg |-> NoMessage, say |-> "none", reply_markup |-> NoKeyboard ]
          IN  /\ handler # "none"
              /\ Len(tasks) < limit
              /\ Len(chat) + Len(tasks) < MaxMessages
              /\ handler = "process_confirmation" =>
                     Cardinality(transactions)
                       + Cardinality({ i \in DOMAIN tasks :
                                         tasks[i].handler = "process_confirmation" })
                       < MaxCommits
              /\ \E r \in { run(t) } :
                    /\ fsm_state' = [fsm_state EXCEPT ![u] = r.state]
                    /\ fsm_data' = [fsm_data EXCEPT ![u] = r.data]
                    /\ transactions' = r.rows
                    /\ chat' = r.chat
                    /\ response' = r.response
                    /\ tasks' = IF r.task.pc = "end" THEN tasks
                                ELSE Append(tasks, r.task)

\* the call an instance waits at returns and the instance runs to its next call
Resume ==
    \E i \in DOMAIN tasks :
       \E r \in { run(tasks[i]) } :
          /\ fsm_state' = [fsm_state EXCEPT ![tasks[i].user] = r.state]
          /\ fsm_data' = [fsm_data EXCEPT ![tasks[i].user] = r.data]
          /\ transactions' = r.rows
          /\ chat' = r.chat
          /\ response' = r.response
          /\ tasks' = IF r.task.pc = "end"
                      THEN SubSeq(tasks, 1, i - 1) \o SubSeq(tasks, i + 1, Len(tasks))
                      ELSE [tasks EXCEPT ![i] = r.task]

SpecTasks == InitTasks /\ [][Deliver(MaxTasks) \/ Resume]_vars

(***************************************************************************)
(* The same updates handled one at a time: an update arrives when no       *)
(* instance is in flight.                                                  *)
(***************************************************************************)
SpecPrompts == InitTasks /\ [][Deliver(1) \/ Resume]_vars

TypeOK ==
    /\ fsm_state \in [Users -> TransactionStates \cup {NoState}]
    /\ \A u \in Users : fsm_data[u].kind \in TransactionKind \cup {NoKind}
    /\ Cardinality(transactions) <= MaxTransactions

(***************************************************************************)
(* Properties                                                              *)
(***************************************************************************)
\* the draft fields of a data dict
DraftFields(data) ==
    <<data.kind, data.category_id, data.subcategory_id, data.comment, data.amount>>

\* the claims' reading of the category directory
CategoryIds == { c.id : c \in Category }
HasChildren(id) == \E c \in Category : c.parent_id = id
KindOf(id) == (CHOOSE c \in Category : c.id = id).kind

\* the callback data process_confirmation is registered for
ConfirmData == <<"transaction_confirm">>

\* the data dict after StartTransaction(expense), SelectCategory(c), SubmitComment("-")
ScriptDraft(c) ==
    [ kind |-> "expense", category_id |-> c, subcategory_id |-> None,
      comment |-> NoComment, amount |-> NoAmount ]

\* C1: from Idle, StartTransaction(expense), SelectCategory(c) for an expense
\* root c without children, SubmitComment("-"), SubmitAmount("100"), Confirm:
\* SubmitAmount("100") is answered with the confirmation prompt from which
\* Confirm is issued, and Confirm leaves the session idle with exactly one new
\* row (expense, c, no subcategory, 100.00, no comment).
C1_ScriptedRecording ==
    [][ \A u \in Users, c \in LeafExpenseIds :
          /\ ( /\ fsm_state[u] = "waiting_for_amount"
               /\ DraftFields(fsm_data[u]) = DraftFields(ScriptDraft(c))
               /\ process_amount(u, Text100) )
             => ( /\ fsm_state'[u] = "waiting_for_confirmation"
                  /\ response'.error = "none"
                  /\ ConfirmData \in response'.keyboard )
          /\ ( /\ fsm_state[u] = "waiting_for_confirmation"
               /\ DraftFields(fsm_data[u]) =
                      DraftFields([ScriptDraft(c) EXCEPT !.amount = <<Decimal(100, 0)>>])
               /\ process_confirmation(u, TRUE) )
             => ( /\ fsm_state'[u] = NoState
                  /\ \E t \in transactions' \ transactions :
                        /\ transactions' = transactions \cup {t}
                        /\ t.user_id = u /\ t.kind = "expense" /\ t.category_id = c
                        /\ t.subcategory_id = None /\ t.amount = 10000
                        /\ t.comment = NoComment )
      ]_vars

\* C2: Confirm in waiting_for_confirmation with a complete draft and a
\* successful commit adds exactly one row, owned by the confirming user, whose
\* kind, category, subcategory, amount and comment equal the draft's, with a
\* positive id no other row has, listed for that user; the session is idle
\* with an empty draft.
C2_ConfirmPersistsDraft ==
    [][ \A u \in Users :
          ( /\ fsm_state[u] = "waiting_for_confirmation"
            /\ fsm_data[u].kind # NoKind
            /\ fsm_data[u].category_id # None
            /\ fsm_data[u].amount # NoAmount
            /\ process_confirmation(u, TRUE) )
          => ( /\ fsm_state'[u] = NoState
               /\ fsm_data'[u] = EmptyData
               /\ \E t \in transactions' \ transactions :
                     /\ transactions' = transactions \cup {t}
                     /\ t.user_id = u
                     /\ t.kind = fsm_data[u].kind
                     /\ t.category_id = fsm_data[u].category_id
                     /\ t.subcategory_id = fsm_data[u].subcategory_id
                     /\ DecimalEq(fsm_data[u].amount[1], t.amount)
                     /\ t.comment = fsm_data[u].comment
                     /\ t.id > 0
                     /\ \A r \in transactions : r.id # t.id
                     /\ t \in get_user_transactions(transactions', u) )
      ]_vars

\* C3: an amount text that fails the grammar or is not positive, submitted in
\* waiting_for_amount, leaves the step and the draft fields unchanged and
\* creates no transaction.
C3_InvalidAmountKeepsStep ==
    [][ \A u \in Users, text \in InvalidAmountTexts :
          (fsm_state[u] = "waiting_for_amount" /\ process_amount(u, text))
          => ( /\ fsm_state'[u] = "waiting_for_amount"
               /\ DraftFields(fsm_data'[u]) = DraftFields(fsm_data[u])
               /\ transactions' = transactions )
      ]_vars

\* C3 witness: an invalid amount was answered and the session still waits
\* for the amount of a draft that has a kind and a category
C3_Witness ==
    \E u \in Users :
        /\ response.user = u /\ response.handler = "process_amount"
        /\ response.text = "amount_not_positive"
        /\ fsm_state[u] = "waiting_for_amount"
        /\ fsm_data[u].kind # NoKind /\ fsm_data[u].category_id # None

\* C4: a positive amount submitted in waiting_for_amount (draft with kind and
\* category) is stored, moves the session to waiting_for_confirmation and is
\* answered with the confirmation summary offering Confirm and Cancel.
C4_ValidAmountPresentsConfirmation ==
    [][ \A u \in Users :
          ( /\ fsm_state[u] = "waiting_for_amount"
            /\ fsm_data[u].kind # NoKind
            /\ fsm_data[u].category_id # None
            /\ process_amount(u, Text100) )
          => ( /\ fsm_data'[u].amount = <<Decimal(100, 0)>>
               /\ fsm_state'[u] = "waiting_for_confirmation"
               /\ response'.text = "confirm_summary"
               /\ {ConfirmData, <<"cancel">>} \subseteq response'.keyboard )
      ]_vars

\* C5: SelectCategory(C) in waiting_for_category for an existing category C
\* records C and moves to waiting_for_subcategory when C has a child, else to
\* waiting_for_comment with no subcategory.
C5_CategoryBranch ==
    [][ \A u \in Users, C \in CategoryIds :
          (fsm_state[u] = "waiting_for_category" /\ process_category_selection(u, C))
          => ( /\ fsm_data'[u].category_id = C
               /\ IF HasChildren(C)
                  THEN fsm_state'[u] = "waiting_for_subcategory"
                  ELSE /\ fsm_state'[u] = "waiting_for_comment"
                       /\ fsm_data'[u].subcategory_id = None )
      ]_vars

\* C5 witness: a category with children was selected in the expense flow
C5_Witness ==
    \E u \in Users :
        /\ response.user = u /\ response.handler = "process_category_selection"
        /\ fsm_state[u] = "waiting_for_subcategory"
        /\ fsm_data[u].kind = "expense"
        /\ HasChildren(fsm_data[u].category_id)

\* C6: a quick pick of an existing category q after StartTransaction(income)
\* moves straight to waiting_for_comment with category q, no subcategory and
\* kind income, whether or not q has children.
C6_QuickPickSkipsSubcategory ==
    [][ \A u \in Users, q \in CategoryIds :
          ( /\ fsm_state[u] = "waiting_for_category"
            /\ fsm_data[u].kind = "income"
            /\ process_quick_income(u, q) )
          => ( /\ fsm_state'[u] = "waiting_for_comment"
               /\ fsm_data'[u].category_id = q
               /\ fsm_data'[u].subcategory_id = None
               /\ fsm_data'[u].kind = "income" )
      ]_vars

\* C6 witness: a quick pick of a category that has children was handled
C6_Witness ==
    \E u \in Users :
        /\ response.user = u /\ response.handler = "process_quick_income"
        /\ response.text = "enter_comment"
        /\ fsm_state[u] = "waiting_for_comment"
        /\ fsm_data[u].kind = "income"
        /\ HasChildren(fsm_data[u].category_id)

C8_RestartDiscardsDraft ==
    [][ \A u \in Users :
          /\ (fsm_state[u] # NoState /\ process_expense(u))
             => ( /\ fsm_state'[u] = "waiting_for_category"
                  /\ DraftFields(fsm_data'[u]) =
                         DraftFields([EmptyData EXCEPT !.kind = "expense"]) )
          /\ (fsm_state[u] # NoState /\ process_income(u))
             => ( /\ fsm_state'[u] = "waiting_for_category"
                  /\ DraftFields(fsm_data'[u]) =
                         DraftFields([EmptyData EXCEPT !.kind = "income"]) )
      ]_vars

\* C9: a Confirm whose commit fails adds no row, is answered with the generic
\* failure and leaves the session idle with an empty draft.
C9_FailedCreateReturnsToIdle ==
    [][ \A u \in Users :
          ( /\ fsm_state[u] = "waiting_for_confirmation"
            /\ fsm_data[u].kind # NoKind
            /\ fsm_data[u].category_id # None
            /\ fsm_data[u].amount # NoAmount
            /\ process_confirmation(u, FALSE) )
          => ( /\ transactions' = transactions
               /\ response'.text = "save_failed"
               /\ fsm_state'[u] = NoState
               /\ fsm_data'[u] = EmptyData )
      ]_vars

\* C10: the category of every stored transaction has the transaction's kind.
C10_CategoryKindMatches ==
    \A t \in transactions :
        \E c \in Category : c.id = t.category_id /\ c.kind = t.kind

\* C11: every stored transaction that has a subcategory has one that is a
\* child of the transaction's category.
C11_SubcategoryIsChild ==
    \A t \in transactions :
        t.subcategory_id # None
        => \E c \in Category : c.id = t.subcategory_id /\ c.parent_id = t.category_id

\* C12: every stored amount is strictly positive in hundredths, and the row a
\* success message announces holds the amount that message shows.
C12_StoredAmountPositive ==
    /\ \A t \in transactions : t.amount > 0
    /\ (response.handler = "process_confirmation" /\ response.text = "saved")
       => \A t \in transactions :
             t.id = response.tx_id => DecimalEq(response.amount[1], t.amount)

\* the amount rule as documented: strip surrounding whitespace, remove
\* internal spaces, turn commas into periods, accept one or more digits
\* optionally followed by one period and optionally more digits
RefCleaned(s) ==
    LET idx == { i \in 1..Len(s) : ~IsSpace(s[i]) }
        lo == CHOOSE i \in idx : \A j \in idx : i <= j
        hi == CHOOSE i \in idx : \A j \in idx : j <= i
        t == IF idx = {} THEN <<>> ELSE SelectSeq(SubSeq(s, lo, hi), LAMBDA c : c # " ")
    IN  [i \in 1..Len(t) |-> IF t[i] = "," THEN "." ELSE t[i]]

RefAccepts(v) ==
    \E k \in 1..Len(v) :
        /\ \A i \in 1..k : IsDigit(v[i])
        /\ \/ k = Len(v)
           \/ /\ v[k + 1] = "."
              /\ \A i \in (k + 2)..Len(v) : IsDigit(v[i])

\* value of the digits v[i..], continuing the value acc of the digits before
RECURSIVE RefHorner(_, _, _)
RefHorner(v, i, acc) ==
    IF i > Len(v) THEN acc
    ELSE RefHorner(v, i + 1, IF v[i] = "." THEN acc ELSE 10 * acc + DigitVal(v[i]))

ReferenceParse(s) ==
    LET v == RefCleaned(s)
        dots == { i \in 1..Len(v) : v[i] = "." }
        frac == IF dots = {} THEN 0 ELSE Len(v) - (CHOOSE i \in dots : TRUE)
    IN  IF RefAccepts(v) THEN <<Decimal(RefHorner(v, 1, 0), frac)>> ELSE <<>>

\* the documented examples of the rule
ParseExamples ==
    { << <<"1", "0", "0", "0">>, <<Decimal(100000, 2)>> >>,
      << <<"1", " ", "5", "0", "0">>, <<Decimal(150000, 2)>> >>,
      << <<"2", ",", "5", "0">>, <<Decimal(250, 2)>> >>,
      << <<"a", "b", "c">>, <<>> >>,
      << <<"-", "5">>, <<>> >> }

\* C13: for every amount text the handler receives, parse_amount yields what
\* the documented rule yields (failure, or the decimal value of the text), and
\* the documented examples come out as documented.
C13_ParseMatchesRule ==
    [][ \A u \in Users :
          LET s == response'.input
          IN  (fsm_state[u] = "waiting_for_amount" /\ process_amount(u, s))
              => ( /\ DecimalResultEq(parse_amount(s), ReferenceParse(s))
                   /\ \A e \in ParseExamples :
                         e[1] = s => DecimalResultEq(parse_amount(s), e[2])
                   /\ (ReferenceParse(s) = <<>>) = (response'.text = "bad_amount_format") )
      ]_vars

\* C13 witness: the text "2,50" was parsed and its value 2.50 is in the draft
C13_Witness ==
    \E u \in Users :
        /\ response.user = u /\ response.handler = "process_amount"
        /\ response.input = <<"2", ",", "5", "0">>
        /\ fsm_data[u].amount = <<Decimal(250, 2)>>

\* C14 as stated: "-5" submitted in waiting_for_amount parses and is answered
\* by the not-positive branch.
C14_NegativeRejectedAtValidation ==
    [][ \A u \in Users :
          (fsm_state[u] = "waiting_for_amount" /\ process_amount(u, <<"-", "5">>))
          => ( /\ parse_amount(<<"-", "5">>) # <<>>
               /\ response'.text = "amount_not_positive" )
      ]_vars

\* C14 amended: a text with a minus sign fails the grammar and is answered by
\* the parse-failure branch; a text of value zero parses and is answered by
\* the not-positive branch; both leave the step, the draft and the table
\* unchanged.
C14_SignFailsGrammar ==
    [][ \A u \in Users, s \in SignedAmountTexts \ {Text100} :
          (fsm_state[u] = "waiting_for_amount" /\ process_amount(u, s))
          => ( /\ IF Head(s) = "-"
                  THEN parse_amount(s) = <<>> /\ response'.text = "bad_amount_format"
                  ELSE /\ DecimalResultEq(parse_amount(s), <<Decimal(0, 0)>>)
                       /\ response'.text = "amount_not_positive"
               /\ fsm_state'[u] = "waiting_for_amount"
               /\ DraftFields(fsm_data'[u]) = DraftFields(fsm_data[u])
               /\ transactions' = transactions )
      ]_vars

\* C14 witness: a signed text was answered as a parse failure in the amount
\* step of a draft with kind and category
C14_Witness ==
    \E u \in Users :
        /\ response.user = u /\ response.handler = "process_amount"
        /\ response.input = <<"-", "5">>
        /\ response.text = "bad_amount_format"
        /\ fsm_state[u] = "waiting_for_amount"
        /\ fsm_data[u].kind # NoKind /\ fsm_data[u].category_id # None

\* C15: for every accepted amount text s, parsing the text shown for
\* parse_amount(s) yields parse_amount(s) again.
C15_ParseFormatRoundTrip ==
    [][ \A u \in Users :
          LET s == response'.input
          IN  ( /\ fsm_state[u] = "waiting_for_amount"
                /\ process_amount(u, s)
                /\ parse_amount(s) # <<>> )
              => DecimalResultEq(parse_amount(str_Decimal(parse_amount(s)[1])),
                                 parse_amount(s))
      ]_vars

\* rows with the id, rows of a user
RowsWithId(id) == { t \in transactions : t.id = id }
OwnedBy(u, id) == \E t \in transactions : t.id = id /\ t.user_id = u

\* C16: for a stored row t of user A, the delete by A (commit succeeding)
\* returns true, removes exactly t and the listing for A no longer holds t;
\* the delete by another user B returns false, removes nothing and t stays
\* listed for A; no delete removes a row with another id.
C16_DeleteByIdScoped ==
    [][ response'.handler = "tx_delete_confirm"
        => LET u == response'.user
               id == response'.tx_id
               scope == response'.title[1]
           IN  \A commit_ok \in BOOLEAN :
                 tx_delete_confirm(u, id, scope, 0, commit_ok)
                 => /\ transactions \ transactions' \subseteq RowsWithId(id)
                    /\ \A t \in RowsWithId(id) :
                          IF t.user_id = u
                          THEN commit_ok
                               => ( /\ delete_transaction_by_id(transactions, u, id, TRUE).ok
                                    /\ response'.text = "deleted"
                                    /\ transactions' = transactions \ {t}
                                    /\ t \notin get_user_transactions(transactions', u)
                                    /\ \A i \in 1..Len(response'.items) :
                                          response'.items[i] # t )
                          ELSE /\ ~delete_transaction_by_id(transactions, u, id, commit_ok).ok
                               /\ response'.text = "delete_failed"
                               /\ transactions' = transactions
                               /\ t \in get_user_transactions(transactions', t.user_id)
      ]_vars

\* C16 witness: an owner's delete succeeded and rows of the other user remain
C16_Witness ==
    /\ response.handler = "tx_delete_confirm" /\ response.text = "deleted"
    /\ RowsWithId(response.tx_id) = {}
    /\ \E t \in transactions : t.user_id # response.user

\* C17: for an id that is not the user's own, what the user is answered on
\* RequestDelete and ConfirmDelete, and the page shown, are what they are on
\* the table without the other users' rows; the delete is answered as failed.
C17_ForeignIdNotRevealed ==
    [][ /\ response'.handler = "tx_delete_prompt"
           => LET u == response'.user
                  id == response'.tx_id
              IN  \A scope \in Scopes :
                    (~OwnedBy(u, id) /\ tx_delete_prompt(u, id, scope, 0))
                    => response' = delete_prompt(u, id, scope, 0)
        /\ response'.handler = "tx_delete_confirm"
           => LET u == response'.user
                  id == response'.tx_id
                  scope == response'.title[1]
              IN  \A commit_ok \in BOOLEAN :
                    (~OwnedBy(u, id) /\ tx_delete_confirm(u, id, scope, 0, commit_ok))
                    => ( /\ response' =
                              tx_delete_confirm_response(
                                  get_user_transactions(transactions, u),
                                  u, id, scope, 0, commit_ok)
                         /\ response'.text = "delete_failed"
                         /\ transactions' = transactions )
      ]_vars

\* C17 witness: a confirm for another user's stored row was answered
C17_Witness ==
    /\ response.handler = "tx_delete_confirm" /\ response.text = "delete_failed"
    /\ \E t \in transactions : t.id = response.tx_id /\ t.user_id # response.user

\* C18: RequestDelete leaves the table unchanged and presents exactly the
\* confirm and the cancel button; the cancel button leads back to the listing
\* with the table unchanged; every step that removes a row is a ConfirmDelete
\* of that row's id by its owner.
C18_DeleteNeedsConfirmation ==
    [][ /\ response'.handler = "tx_delete_prompt"
           => LET u == response'.user
                  id == response'.tx_id
              IN  \A scope \in Scopes :
                    tx_delete_prompt(u, id, scope, 0)
                    => ( /\ transactions' = transactions
                         /\ response'.keyboard =
                                { <<"tx", "delconf", id, scope, 0>>,
                                  <<"recent", scope, 0>> } )
        /\ (response.handler = "tx_delete_prompt" /\ response'.handler = "recent_paged")
           => LET u == response'.user
                  scope == response'.title[1]
              IN  ( /\ <<"recent", scope, 0>> \in response.keyboard
                    /\ recent_paged(u, scope, 0) )
                  => ( /\ transactions' = transactions
                       /\ response'.text = "recent_list"
                       /\ response'.items =
                              _fetch_recent(transactions, u, kind_of_scope(scope), 0) )
        /\ transactions' # transactions
           => \E t \in transactions :
                 /\ transactions' = transactions \ {t}
                 /\ response'.handler = "tx_delete_confirm"
                 /\ tx_delete_confirm(t.user_id, t.id, response'.title[1], 0, TRUE)
      ]_vars

\* C18 witness: a prompt for the user's own stored row is shown
C18_Witness ==
    /\ response.handler = "tx_delete_prompt"
    /\ OwnedBy(response.user, response.tx_id)

\* the user's rows matching a scope
Matching(u, scope) ==
    { t \in transactions : t.user_id = u /\ (scope # "all" => t.kind = scope) }

\* C19: RequestRecent(scope, offset) shows min(10, max(0, N - offset)) rows,
\* all of the user and of the scope, newest first, the i-th of them having
\* exactly offset + i - 1 newer matching rows; the pages at offsets 0, 10,
\* 20, ... are disjoint and cover the N matching rows.
C19_RecentPage ==
    [][ response'.handler = "recent_paged"
        => \A u \in {response'.user}, scope \in {response'.title[1]},
              offset \in {response'.title[2]}, items \in {response'.items} :
             recent_paged(u, scope, offset)
             => \A matching \in {Matching(u, scope)} :
                  \A N \in {Cardinality(matching)} :
                    \A pages \in { [ k \in 0..(N \div 10) |->
                                      _fetch_recent(transactions, u,
                                                    kind_of_scope(scope), 10 * k) ] } :
                       /\ Len(items) = IF N - offset < 10
                                       THEN (IF N - offset > 0 THEN N - offset ELSE 0)
                                       ELSE 10
                       /\ \A i \in 1..Len(items) :
                             /\ items[i] \in matching
                             /\ Cardinality({ t \in matching :
                                                t.effective_at > items[i].effective_at })
                                = offset + i - 1
                       /\ \A i, j \in 1..Len(items) :
                             i < j => items[i].effective_at > items[j].effective_at
                       /\ \A t \in matching :
                             Cardinality({ k \in DOMAIN pages :
                                             \E i \in 1..Len(pages[k]) : pages[k][i] = t })
                             = 1
      ]_vars

\* C19 witness: with 15 rows of the user, the page at offset 10 shows 5
C19_Witness ==
    /\ response.handler = "recent_paged"
    /\ response.title = <<"all", 10>>
    /\ Cardinality(Matching(response.user, "all")) = 15
    /\ Len(response.items) = 5

\* C20: the page of RequestRecent(scope, offset) offers forward navigation
\* exactly when N > offset + 10, and backward navigation exactly when
\* offset > 0, never to a negative offset.
C20_HasMoreExact ==
    [][ response'.handler = "recent_paged"
        => LET u == response'.user
               scope == response'.title[1]
               offset == response'.title[2]
               N == Cardinality(Matching(u, scope))
               nav == response'.nav
               forward == { i \in 1..Len(nav) : nav[i][3] > offset }
               backward == { i \in 1..Len(nav) : nav[i][3] < offset }
           IN  recent_paged(u, scope, offset)
               => /\ (forward # {}) = (N > offset + 10)
                  /\ (backward # {}) = (offset > 0)
                  /\ \A i \in 1..Len(nav) : nav[i][3] >= 0
      ]_vars

\* the rows of a table that are the user's and match a scope
MatchingIn(rows, u, scope) ==
    { t \in rows : t.user_id = u /\ (scope # "all" => t.kind = scope) }

\* C21: ConfirmDelete(tx_id) from the page at (scope, offset) answers with
\* the page of the same scope and offset on the table after the delete: no
\* removed row is on it, every row on it is stored, and it holds
\* min(10, max(0, N' - offset)) rows, whether the delete succeeded or not.
C21_DeleteRerendersPage ==
    [][ response'.handler = "tx_delete_confirm"
        => \A scope \in {response'.title[1]}, offset \in {response'.title[2]},
              items \in {response'.items},
              after \in {MatchingIn(transactions', response'.user, response'.title[1])} :
             \A N2 \in {Cardinality(after)} :
                /\ response'.error = "none" /\ response'.via = "edit_text"
                /\ response'.text \in {"deleted", "delete_failed"}
                /\ (response'.text = "deleted") = (transactions' # transactions)
                /\ (response.title # <<>> => response'.title = response.title)
                /\ Len(items) = IF N2 - offset < 10
                                THEN (IF N2 - offset > 0 THEN N2 - offset ELSE 0)
                                ELSE 10
                /\ \A i \in 1..Len(items) :
                      /\ items[i] \in after
                      /\ items[i] \notin transactions \ transactions'
                      /\ Cardinality({ t \in after :
                                         t.effective_at > items[i].effective_at })
                         = offset + i - 1
                /\ response'.nav = nav_row(scope, offset, items)
      ]_vars

\* C21 witness: the only row of the second page was deleted and the page at
\* offset 10 is shown empty
C21_Witness ==
    /\ response.handler = "tx_delete_confirm" /\ response.text = "deleted"
    /\ response.title = <<"all", 10>>
    /\ Cardinality(Matching(response.user, "all")) = 10
    /\ response.items = <<>>

\* the rows of user u that /undo at time `now` may remove
InWindow(rows, u, now) ==
    { t \in rows : t.user_id = u /\ t.created_at >= now - 5 /\ t.created_at <= now }

\* C22: an /undo of user U that directly follows U's Confirm which created t,
\* at most 5 minutes later and with the commit succeeding, removes exactly t;
\* an /undo when U has no row created within the last 5 minutes answers
\* "nothing to undo", raises nothing and leaves the table unchanged.
C22_UndoAfterCreate ==
    [][ response'.handler = "cmd_undo"
        => \A u \in {response'.user}, now \in {response'.at} :
             /\ ( /\ response.handler = "process_confirmation"
                  /\ response.text = "saved"
                  /\ response.user = u
                  /\ response'.error = "none" )
                => \A t \in RowsWithId(response.tx_id) :
                      now <= t.created_at + 5
                      => /\ response'.text = "undone"
                         /\ response'.tx_id = t.id
                         /\ transactions' = transactions \ {t}
             /\ InWindow(transactions, u, now) = {}
                => /\ response'.text = "nothing_to_undo"
                   /\ response'.error = "none"
                   /\ transactions' = transactions
      ]_vars

\* C22 witness: the row a Confirm created was undone and the rows stored
\* before it remain, one of the same user among them
C22_Witness ==
    /\ response.handler = "cmd_undo" /\ response.text = "undone"
    /\ response.tx_id = MaxUndoRows + 1
    /\ Cardinality(transactions) = MaxUndoRows
    /\ \E t \in transactions : t.user_id = response.user

\* C23: an /undo of user U at time `now` removes at most one row; a removed
\* row is U's, was created within the 5 minutes before `now` and is the
\* newest such row; unless the commit fails a row is removed exactly when
\* such a row is stored; a following /undo of U removes an older row.
C23_UndoWindow ==
    [][ response'.handler = "cmd_undo"
        => \A u \in {response'.user}, now \in {response'.at},
              removed \in {transactions \ transactions'},
              window \in {InWindow(transactions, response'.user, response'.at)} :
             /\ transactions' \subseteq transactions
             /\ Cardinality(removed) <= 1
             /\ \A t \in removed :
                   /\ t \in window
                   /\ \A r \in window : r.created_at <= t.created_at
                   /\ response'.text = "undone" /\ response'.tx_id = t.id
             /\ response'.error = "none" => ((removed = {}) = (window = {}))
             /\ response'.error # "none" => (removed = {} /\ window # {})
             /\ ( /\ response.handler = "cmd_undo" /\ response.text = "undone"
                  /\ response.user = u /\ removed # {} )
                => response'.tx_id < response.tx_id
      ]_vars

\* C23 witness: an /undo removed a row of the user while an older row of the
\* same user, created more than 5 minutes before the request, stays stored
C23_Witness ==
    /\ response.handler = "cmd_undo" /\ response.text = "undone"
    /\ \E t \in transactions :
          /\ t.user_id = response.user
          /\ t.created_at < response.at - 5

\* the sum of a tuple of integers
RECURSIVE IntSum(_)
IntSum(column) ==
    IF column = <<>> THEN 0 ELSE Head(column) + IntSum(Tail(column))

\* x >= y >= ... along a column of floats
Descending(column) ==
    \A i, j \in DOMAIN column : i < j => ~fless(column[i], column[j])

\* C24: a by_category report over a non-empty filtered set has exactly one
\* row per category of the filtered set, the rows' sums add up to
\* summary.total, the rows' counts add up to summary.count, and the rows are
\* ordered by sum descending.
C24_ByCategoryTotals ==
    ( /\ response.handler = "handle_export"
      /\ response.title[3] = "by_category"
      /\ response.error = "none" )
    => \A df \in {response.report[1].df}, table \in {response.report[1].display_df},
          summary \in {response.report[1].summary} :
         /\ { table[i].category : i \in DOMAIN table }
            = { df[i].category : i \in DOMAIN df }
         /\ \A i, j \in DOMAIN table : table[i].category = table[j].category => i = j
         /\ fsum([ i \in DOMAIN table |-> table[i].amount ]) = summary.total
         /\ IntSum([ i \in DOMAIN table |-> table[i].count ]) = summary.count
         /\ Descending([ i \in DOMAIN table |-> table[i].amount ])

\* C25: an overall report always draws a table of exactly 2 rows, the total
\* sum and the number of rows of the filtered set; over the empty set they
\* are 0.00 and 0.
C25_OverallTwoRows ==
    ( /\ response.handler = "handle_export"
      /\ response.title[3] = "overall" )
    => \A df \in {response.report[1].df}, table \in {response.report[1].display_df} :
         /\ response.error = "none"
         /\ Len(table) = 2
         /\ table[1] = [ metric |-> "sum",
                         value |-> fsum([ i \in DOMAIN df |-> df[i].amount ]) ]
         /\ table[2] = [metric |-> "count", value |-> Len(df)]
         /\ df = <<>> => table[1].value = float(0)

\* what handle_export answers to the request of `response` with `aggregation`
\* in place of its aggregation
ReportUnder(aggregation) ==
    build_report(transactions, response.user,
                 IF response.title[1] = "expense" THEN "expense" ELSE "income",
                 response.at - response.title[2], response.at, NoFilters, aggregation)

\* C26: for the same user, kind, date range and filters, every aggregation
\* mode returns the same summary {kind, total, count}: total is the sum of
\* the amounts and count the number of rows of the unaggregated filtered set.
C26_SummaryModeIndependent ==
    response.handler = "handle_export"
    => \A mode \in Aggregations \cup {"None"} :
          \A other \in {ReportUnder(mode)} :
             /\ other.raised = "none"
             /\ other.summary = response.report[1].summary
             /\ other.summary.count = Len(other.df)
             /\ other.summary.total = fsum([ i \in DOMAIN other.df |-> other.df[i].amount ])

\* the stored rows a report of user u and kind K over [start, end] is about
InRange(u, K, start, end) ==
    { t \in transactions :
        t.user_id = u /\ t.kind = K /\ start <= t.effective_at /\ t.effective_at <= end }

\* C27: the report of (U, K, start, end) without filters is computed from
\* exactly the stored rows of user U and kind K with start <= effective_at
\* <= end: each such row is one row of the data sheet, in date order, every
\* row of the data sheet is such a row, and the summary counts and adds up
\* these rows only.
C27_ReportScope ==
    response.handler = "handle_export"
    => \A df \in {response.report[1].df},
          ref \in {InRange(response.user,
                           IF response.title[1] = "expense" THEN "expense" ELSE "income",
                           response.at - response.title[2], response.at)} :
         /\ Len(df) = Cardinality(ref)
         /\ \A i \in DOMAIN df :
               \E t \in ref :
                  /\ df[i].date = t.effective_at
                  /\ df[i].category = t.category_id
                  /\ df[i].amount = float(t.amount)
                  /\ Cardinality({ r \in ref : r.effective_at < t.effective_at }) = i - 1
         /\ response.report[1].summary.count = Cardinality(ref)
         /\ response.report[1].summary.total = fsum([ i \in DOMAIN df |-> df[i].amount ])
         /\ response.report[1].summary.kind
            = IF response.title[1] = "expense" THEN "expense" ELSE "income"

\* C27 witness: a report that holds the row dated exactly at its end and
\* leaves out a row of another user and a row of the other kind
C27_Witness ==
    /\ response.handler = "handle_export"
    /\ response.title[1] = "expense"
    /\ \E i \in DOMAIN response.report[1].df : response.report[1].df[i].date = response.at
    /\ \E t \in transactions : t.user_id # response.user /\ t.effective_at <= response.at
    /\ \E t \in transactions : t.user_id = response.user /\ t.kind = "income"
    /\ response.report[1].summary.count = 1

\* the tuples of a tuple of tuples, one after the other
RECURSIVE Concat(_)
Concat(columns) ==
    IF columns = <<>> THEN <<>> ELSE Head(columns) \o Concat(Tail(columns))

\* the amounts of the rows of a data sheet that satisfy P, in row order
AmountsWhere(df, P(_)) ==
    LET picked == SelectSeq(df, P) IN [ i \in DOMAIN picked |-> picked[i].amount ]

\* C28: a by_category_sections report of expenses produces one table per
\* category of the filtered set, the tables ordered by category total
\* descending; each table has one row per subcategory of its category with
\* the sum of that subcategory's amounts, rows ordered by sum descending; and
\* the sums of all rows of all tables add up to summary.total.
C28_SectionsTotals ==
    ( /\ response.handler = "handle_export"
      /\ response.title[1] = "expense"
      /\ response.title[3] = "by_category_sections" )
    => \A df \in {response.report[1].df}, tables \in {response.report[1].extra_sheets} :
         /\ response.error = "none"
         /\ { tables[c].cat_name : c \in DOMAIN tables }
            = { df[i].category : i \in DOMAIN df }
         /\ \A c, d \in DOMAIN tables : tables[c].cat_name = tables[d].cat_name => c = d
         /\ Descending([ c \in DOMAIN tables |->
                           fsum(AmountsWhere(df, LAMBDA r :
                                                    r.category = tables[c].cat_name)) ])
         /\ \A c \in DOMAIN tables :
               \A sub \in {tables[c].sub} :
                  /\ { sub[i].subcategory : i \in DOMAIN sub }
                     = { df[i].subcategory :
                           i \in { k \in DOMAIN df : df[k].category = tables[c].cat_name } }
                  /\ \A i, j \in DOMAIN sub :
                        sub[i].subcategory = sub[j].subcategory => i = j
                  /\ \A i \in DOMAIN sub :
                        sub[i].amount
                        = fsum(AmountsWhere(df, LAMBDA r :
                                                   /\ r.category = tables[c].cat_name
                                                   /\ r.subcategory = sub[i].subcategory))
                  /\ Descending([ i \in DOMAIN sub |-> sub[i].amount ])
         /\ fsum(Concat([ c \in DOMAIN tables |->
                            [ i \in DOMAIN tables[c].sub |-> tables[c].sub[i].amount ] ]))
            = response.report[1].summary.total

\* C29: a report over an empty filtered set completes without error with
\* summary total 0 and count 0: in by_category_sections mode with the
\* empty-state chart and the workbook of the three fixed sheets, in every
\* other mode with an empty table.
C29_EmptySetNoError ==
    ( /\ response.handler = "handle_export"
      /\ response.report[1].df = <<>> )
    => \A report \in {response.report[1]} :
         /\ response.error = "none" /\ report.raised = "none"
         /\ response.via = "answer_document"
         /\ report.summary.total = float(0) /\ report.summary.count = 0
         /\ report.display_df = <<>> /\ report.png_tables = <<>>
         /\ report.extra_sheets = <<>>
         /\ \A i \in 1..3 : report.sheets[i] = <<"data", "summary", "meta">>[i]
         /\ response.title[3] = "by_category_sections" => report.chart = "no_data"

C35_ConfirmOnlyInConfirmation ==
    [][ /\ transactions' # transactions
           => /\ response'.handler = "process_confirmation"
              /\ fsm_state[response'.user] = "waiting_for_confirmation"
        /\ ( /\ response'.handler = "process_confirmation"
             /\ fsm_state[response'.user] # "waiting_for_confirmation" )
           => UNCHANGED <<fsm_state, fsm_data, transactions>>
      ]_vars

\* C37: a Confirm received while the draft lacks kind, category_id or amount
\* is answered with an error message, creates no transaction and does not
\* end in an exception, whichever field is missing.
C37_IncompleteDraftRejected ==
    [][ ( /\ response'.handler = "process_confirmation"
          /\ \/ fsm_data[response'.user].kind = NoKind
             \/ fsm_data[response'.user].category_id = None
             \/ fsm_data[response'.user].amount = NoAmount )
        => /\ response'.error = "none"
           /\ response'.text \in {"amount_error", "save_failed"}
           /\ transactions' = transactions
      ]_vars

\* C38: a session in waiting_for_comment, waiting_for_amount or
\* waiting_for_confirmation has a kind and a category_id in its draft, and in
\* waiting_for_confirmation a positive amount as well.
C38_StepHasRequiredFields ==
    \A u \in Users :
       /\ fsm_state[u] \in { "waiting_for_comment", "waiting_for_amount",
                             "waiting_for_confirmation" }
          => /\ fsm_data[u].kind \in TransactionKind
             /\ fsm_data[u].category_id # None
       /\ fsm_state[u] = "waiting_for_confirmation"
          => /\ fsm_data[u].amount # NoAmount
             /\ fsm_data[u].amount[1].coef > 0

\* C34: a category, quick income or subcategory callback whose id is not in
\* the directory is answered with a not-found notice, creates no transaction
\* and leaves the step and every draft field as they were.
C34_UnknownIdRejected ==
    [][ \A u \in Actors, id \in UnknownIds :
           ( \/ process_category_selection(u, id)
             \/ process_quick_income(u, id)
             \/ process_subcategory_selection(u, id) )
           => /\ response'.error = "none"
              /\ response'.via = "answer"
              /\ response'.text \in {"category_not_found", "subcategory_not_found"}
              /\ response'.user = u
              /\ UNCHANGED <<fsm_state, fsm_data, transactions>>
      ]_vars

\* C34 witness: a quick income callback with an unknown id was rejected while
\* the session was waiting for the amount with its draft
C34_Witness ==
    /\ response.handler = "process_quick_income"
    /\ response.text = "category_not_found"
    /\ fsm_state[response.user] = "waiting_for_amount"
    /\ fsm_data[response.user].category_id # None
    /\ fsm_data[response.user].kind \in TransactionKind

\* the handlers of RequestRecent, RequestDelete, ConfirmDelete, RequestUndo
\* and RequestReport
InterruptHandlers ==
    { "recent_all", "recent_paged", "tx_delete_prompt", "tx_delete_confirm",
      "cmd_undo", "handle_export" }

\* C39: browsing, asking for or confirming a deletion, /undo and a report
\* request leave the step and every draft field of every session as they
\* were.
C39_InterruptsKeepSession ==
    [][ response'.handler \in InterruptHandlers
        => /\ fsm_state' = fsm_state
           /\ \A u \in Users : DraftFields(fsm_data'[u]) = DraftFields(fsm_data[u])
      ]_vars

\* C39 witness: /undo was answered while the session was waiting for
\* confirmation with a complete draft
C39_Witness ==
    /\ response.handler = "cmd_undo"
    /\ fsm_state[response.user] = "waiting_for_confirmation"
    /\ fsm_data[response.user].amount # NoAmount
    /\ fsm_data[response.user].category_id # None

C32_UsersIndependent ==
    [][ \A a \in {response'.user} :
           /\ \A b \in Users \ {a} :
                 fsm_state'[b] = fsm_state[b] /\ fsm_data'[b] = fsm_data[b]
           /\ transactions' # transactions
              => \A t \in transactions' \ transactions :
                    /\ t.user_id = a
                    /\ t.kind = fsm_data[a].kind
                    /\ t.category_id = fsm_data[a].category_id
                    /\ t.subcategory_id = fsm_data[a].subcategory_id
                    /\ DecimalEq(fsm_data[a].amount[1], t.amount)
                    /\ t.comment = fsm_data[a].comment
      ]_vars

\* C32 witness: user 1's Confirm stored a row of category 50 while user 2
\* waits for confirmation with a draft of category 36 and subcategory 40
C32_Witness ==
    /\ response.handler = "process_confirmation" /\ response.text = "saved"
    /\ response.user = 1
    /\ \E t \in transactions : t.id = response.tx_id /\ t.category_id = 50
    /\ fsm_state[2] = "waiting_for_confirmation"
    /\ fsm_data[2].category_id = 36 /\ fsm_data[2].subcategory_id = 40

(***************************************************************************)
(* Prompts in the chat and interleaved handlers                            *)
(***************************************************************************)
\* the messages of the bot the chat shows with buttons to choose from
LivePrompts == { i \in DOMAIN chat : chat[i].shown /\ chat[i].keyboard # NoKeyboard }

\* the chat shows one prompt and last_bot_message_id of user 1 is its id
OnePromptDesignated ==
    \E i \in DOMAIN chat :
       LivePrompts = {i} /\ fsm_data[1].last_bot_message_id = ToString(i)

\* C31: after any sequence of events of one user, handled one at a time,
\* the chat shows exactly one prompt with choices and the pointer of the
\* session designates it
C31_OneLivePrompt == tasks = <<>> => OnePromptDesignated

\* C36: two interleaved confirmations of one draft store at most one row
\* (the draft of user 1 is the only one the specification holds)
C36_OneRowPerDraft == Cardinality({ r \in transactions : r.user_id = 1 }) <= 1

\* C40: when text messages of one user in the comment or the amount step
\* have been handled interleaved (no command has answered and no
\* confirmation has edited a message: the bot sent cancel keyboards only,
\* and nothing is stored), the chat shows exactly one prompt and the
\* pointer designates it
C40_InterleavedMessagesKeepOnePrompt ==
    ( /\ tasks = <<>>
      /\ transactions = {}
      /\ \A i \in DOMAIN chat : chat[i].keyboard = get_cancel_keyboard )
    => OnePromptDesignated

====
